---- MODULE Spec2Model ----
(***************************************************************************)
(* Model of the render-pipeline scripts of hpc-sim.  The corner text       *)
(* overlay tool (0-render-scripts/script93-left.py) is modelled as a state *)
(* machine over the file system it reads and writes; its per-frame label   *)
(* and layout functions are operators, also applied on their own under     *)
(* SpecRender.  Text is a sequence of one-character strings, so that       *)
(* str(), zfill(), strip() and replace() are computed, not assumed.        *)
(***************************************************************************)
EXTENDS Integers, Sequences, FiniteSets, TLC

\* ------------------------------------------------------------------ bounds
\* Largest number of plain PNG files in the input directory of a run.
MaxFrames == 4
\* Largest number of frames of one run that fail for an external reason.
MaxFail == 1
\* Largest frame count of the frame-index sweep of SpecRender.
MaxTotal == 250
\* Largest frame count of the label sweep of SpecRender.
MaxSmallTotal == 2

\* the runs of the tool made on one input directory, one after the other
MaxRuns == 2

\* the PNG files of a folder given to the filtered tool
MaxFilterFrames == 11

\* the frames of a folder given to the single-line tool
MaxMarkerTotal == 12

\* ------------------------------------------------- configuration constants
LINE_SPACING == 1
\* BIG = 1.5 as the fraction BIG_NUM / BIG_DEN
BIG_NUM == 3
BIG_DEN == 2
\* HOURS_PER_FRAME = 0.98 as the fraction HOURS_NUM / HOURS_DEN
HOURS_NUM == 98
HOURS_DEN == 100
OFFSET_X_TL == 15
OFFSET_Y_TL == 10
OFFSET_X_TR == 15
OFFSET_Y_TR == 10
OFFSET_X_BL == 15
OFFSET_Y_BL == 10
OFFSET_X_BR == 15
OFFSET_Y_BR == 10

\* ------------------------------------------------------------------- text
\* The frame-number token of a label, the character U+0060 (a string of the
\* model cannot hold that character itself).
Backtick == "<U+0060>"

\* The characters the model's texts use, in code point order.
Alphabet ==
  << " ", "!", "(", ")", ",", "-", ".", "/",
     "0", "1", "2", "3", "4", "5", "6", "7", "8", "9", ":",
     ">", "C", "D", "E", "F", "G", "I", "M", "N", "O", "P", "S", "T", "V",
     "W", "X", "Y", "Z", "^", Backtick,
     "a", "c", "d", "e", "f", "g", "h", "i", "l", "m", "n", "o", "p", "r",
     "s", "t", "v", "w", "x", "y", "~" >>

\* ord(c): the position of c in code point order.
Ord(c) == CHOOSE i \in 1..Len(Alphabet) : Alphabet[i] = c

DigitChars == << "0", "1", "2", "3", "4", "5", "6", "7", "8", "9" >>

IsDigit(c) == \E i \in 1..10 : DigitChars[i] = c

DigitValue(c) == (CHOOSE i \in 1..10 : DigitChars[i] = c) - 1

\* str(n) for an integer n >= 0
RECURSIVE Str(_)
Str(n) == IF n < 10 THEN << DigitChars[n + 1] >>
          ELSE Str(n \div 10) \o << DigitChars[(n % 10) + 1] >>

\* s.zfill(width) for an unsigned digit string s
RECURSIVE ZFill(_, _)
ZFill(s, width) == IF Len(s) >= width THEN s ELSE ZFill(<< "0" >> \o s, width)

\* s.replace(ch, r) for a one-character ch
RECURSIVE Replace(_, _, _)
Replace(s, ch, r) ==
  IF s = << >> THEN << >>
  ELSE (IF Head(s) = ch THEN r ELSE << Head(s) >>) \o Replace(Tail(s), ch, r)

\* s.lstrip()
RECURSIVE LStrip(_)
LStrip(s) == IF s # << >> /\ Head(s) = " " THEN LStrip(Tail(s)) ELSE s

\* s.rstrip()
RECURSIVE RStrip(_)
RStrip(s) ==
  IF s # << >> /\ s[Len(s)] = " " THEN RStrip(SubSeq(s, 1, Len(s) - 1)) ELSE s

\* s.strip()
Strip(s) == RStrip(LStrip(s))

\* s.lower() on the letters of Alphabet that have a lower-case form in it
LowerChar(c) ==
  CASE c = "C" -> "c" [] c = "D" -> "d" [] c = "E" -> "e" [] c = "F" -> "f"
    [] c = "G" -> "g" [] c = "I" -> "i" [] c = "M" -> "m" [] c = "N" -> "n"
    [] c = "O" -> "o" [] c = "P" -> "p" [] c = "S" -> "s" [] c = "T" -> "t"
    [] c = "V" -> "v" [] c = "W" -> "w" [] c = "X" -> "x" [] c = "Y" -> "y"
    [] OTHER -> c

Lower(s) == [i \in 1..Len(s) |-> LowerChar(s[i])]

\* a < b for Python strings: the first differing code point decides, and a
\* proper prefix sorts first
RECURSIVE StrLess(_, _)
StrLess(a, b) ==
  IF a = << >> THEN b # << >>
  ELSE IF b = << >> THEN FALSE
  ELSE IF Head(a) = Head(b) THEN StrLess(Tail(a), Tail(b))
  ELSE Ord(Head(a)) < Ord(Head(b))

\* int(round(num / den)) for num >= 0, den > 0: Python rounds a tie to even
round(num, den) ==
  LET q == num \div den
      r == num % den
  IN IF 2 * r > den \/ (2 * r = den /\ q % 2 = 1) THEN q + 1 ELSE q

\* ---------------------------------------------------------------- fonts
\* load_font: the TrueType font at the size, or the built-in default font,
\* which has one size of its own, when the font file cannot be loaded.
load_font(font_ok, size) ==
  IF font_ok THEN [kind |-> "truetype", size |-> size]
  ELSE [kind |-> "default", size |-> 10]

\* the big size if a tie were rounded up
big_size_half_up(size) == (2 * size * BIG_NUM + BIG_DEN) \div (2 * BIG_DEN)

\* the four "big" fonts: the size is int(round(FONT_SIZE * BIG))
big_size(size) == round(size * BIG_NUM, BIG_DEN)

\* _text_size(font, text)[0]: the measured width of the text in the font.
\* The glyph metrics belong to the font file; every glyph is taken to advance
\* half the point size (rounded up).
_text_size(font, text) == Len(text) * ((font.size + 1) \div 2)

\* _line_height(font): ascent + descent, taken as size + size div 4.
_line_height(font) == font.size + (font.size \div 4)

\* ------------------------------------------------------------- labels
\* A configured TEXT_LABEL_* value is None, a str, a list whose items are
\* None or str, or a value that is not iterable (given by its str()).
NoneLabel == [kind |-> "none"]
StrLabel(s) == [kind |-> "str", s |-> s]
ListLabel(items) == [kind |-> "list", items |-> items]
ScalarLabel(s) == [kind |-> "scalar", s |-> s]
NoneItem == [isNone |-> TRUE, s |-> << >>]
Item(s) == [isNone |-> FALSE, s |-> s]

\* the list branch of _normalize_texts
RECURSIVE normalize_items(_)
normalize_items(items) ==
  IF items = << >> THEN << >>
  ELSE LET item == Head(items)
           s == Strip(item.s)
       IN (IF item.isNone \/ s = << >> THEN << >> ELSE << s >>)
          \o normalize_items(Tail(items))

_normalize_texts(label) ==
  CASE label.kind = "none" -> << >>
    [] label.kind = "str" ->
         (LET s == Strip(label.s) IN IF s # << >> THEN << s >> ELSE << >>)
    [] label.kind = "list" -> normalize_items(label.items)
    [] label.kind = "scalar" ->
         (LET s == Strip(label.s) IN IF s # << >> THEN << s >> ELSE << >>)

\* TIME_LABEL_TEMPLATE, with HOURS_PER_FRAME formatted by :.1f (0.98 -> 1.0)
TIME_LABEL_PREFIX ==
  << "T", "i", "m", "e", " ", "E", "s", "t", "i", "m", "a", "t", "e", " ",
     "(", "1", ".", "0", " ", "h", "r", "/", "f", "r", "a", "m", "e", ")",
     ":", " " >>

TIME_LABEL_TEMPLATE ==
  TIME_LABEL_PREFIX \o << "X", " ", "d", "d", " ", "Y", " ", "h", "r" >>

TIME == << "T", "I", "M", "E" >>

\* the elapsed hours truncated instead of rounded
elapsed_hours_truncated(frame_index) ==
  ((frame_index - 1) * HOURS_NUM) \div HOURS_DEN

elapsed_hours_display(frame_index) ==
  round((frame_index - 1) * HOURS_NUM, HOURS_DEN)

time_days(frame_index) == elapsed_hours_display(frame_index) \div 24

time_hours(frame_index) == elapsed_hours_display(frame_index) % 24

build_time_label(frame_index, pad_days, pad_hours) ==
  LET day_str == ZFill(Str(time_days(frame_index)), pad_days)
      hour_str == ZFill(Str(time_hours(frame_index)), pad_hours)
  IN Replace(Replace(TIME_LABEL_TEMPLATE, "X", day_str), "Y", hour_str)

\* the width of the largest 0-based index
pad_width_of_last_offset(total) == Len(Str(total - 1))

\* the hours width as computed on line 286, before line 287 overwrites it
pad_hours_of_max_hours(total) ==
  LET n == Len(Str(time_hours(total))) IN IF n > 1 THEN n ELSE 1

\* main: pad_width, pad_days and pad_hours, computed once before the frame
\* loop; the computed pad_hours is overwritten by 2
pad_width_of(total) == Len(Str(total))

pad_days_of(total) ==
  LET max_days == time_days(total)
      n == Len(Str(max_days))
  IN IF n > 1 THEN n ELSE 1

pad_hours_of(total) == 2

compute_pads(total) ==
  [width |-> pad_width_of(total),
   days |-> pad_days_of(total),
   hours |-> pad_hours_of(total)]

frame_str(idx, pad_width) == ZFill(Str(idx), pad_width)

replace_tokens(s, idx, total, pads) ==
  Replace(Replace(s, Backtick, frame_str(idx, pads.width)), "^", Str(total))

\* process_label: is_big, and the text left after the marker
is_big(t) == t # << >> /\ Head(t) = "!"

strip_marker(t) == IF is_big(t) THEN LStrip(Tail(t)) ELSE t

\* a line that only starts with the sentinel
is_time_prefix(t) == Len(t) >= Len(TIME) /\ SubSeq(t, 1, Len(TIME)) = TIME

is_time(t) == t = TIME

resolve_line(t, idx, total, pads) ==
  LET body == strip_marker(t)
  IN [text |-> IF is_time(body)
               THEN build_time_label(idx, pads.days, pads.hours)
               ELSE replace_tokens(body, idx, total, pads),
      big |-> is_big(t)]

process_label(label, idx, total, pads) ==
  LET norm == _normalize_texts(label)
  IN [i \in 1..Len(norm) |-> resolve_line(norm[i], idx, total, pads)]

\* ------------------------------------------------------------- layout
\* A corner handed to add_text_overlays: lines, font, font_big, offset_x,
\* offset_y.  A draw call is draw.text((x, y), text, font).
line_font(c, item) == IF item.big THEN c.font_big ELSE c.font

\* the y of line k if every line advanced the cursor by the base font's height
RECURSIVE y_at_base_height(_, _, _, _)
y_at_base_height(c, k, y0, line_spacing) ==
  IF k = 1 THEN y0
  ELSE y_at_base_height(c, k - 1, y0, line_spacing)
       + _line_height(c.font) + line_spacing

\* the y of line k when the block starts at y0: every earlier line has
\* advanced the cursor by its own line height plus line_spacing
RECURSIVE y_at(_, _, _, _)
y_at(c, k, y0, line_spacing) ==
  IF k = 1 THEN y0
  ELSE y_at(c, k - 1, y0, line_spacing)
       + _line_height(line_font(c, c.lines[k - 1])) + line_spacing

\* total_h of the first n lines of a bottom block
RECURSIVE total_h(_, _, _)
total_h(c, n, line_spacing) ==
  IF n = 0 THEN 0
  ELSE total_h(c, n - 1, line_spacing)
       + _line_height(line_font(c, c.lines[n]))
       + (IF n - 1 < Len(c.lines) - 1 THEN line_spacing ELSE 0)

draw_call(c, k, x, y) ==
  [x |-> x, y |-> y, text |-> c.lines[k].text, font |-> line_font(c, c.lines[k])]

draw_tl(c, line_spacing) ==
  [k \in 1..Len(c.lines) |->
     draw_call(c, k, c.offset_x, y_at(c, k, c.offset_y, line_spacing))]

\* the x of a right-aligned line if every line were measured in the base font
right_x_base_font(W, c, k) ==
  W - _text_size(c.font, c.lines[k].text) - c.offset_x

\* the x of a right-aligned line if the offset were added
right_x_offset_added(W, c, k) ==
  W - _text_size(line_font(c, c.lines[k]), c.lines[k].text) + c.offset_x

right_x(W, c, k) ==
  W - _text_size(line_font(c, c.lines[k]), c.lines[k].text) - c.offset_x

draw_tr(W, c, line_spacing) ==
  [k \in 1..Len(c.lines) |->
     draw_call(c, k, right_x(W, c, k), y_at(c, k, c.offset_y, line_spacing))]

bottom_y0(H, c, line_spacing) ==
  H - c.offset_y - total_h(c, Len(c.lines), line_spacing)

draw_bl(H, c, line_spacing) ==
  [k \in 1..Len(c.lines) |->
     draw_call(c, k, c.offset_x,
               y_at(c, k, bottom_y0(H, c, line_spacing), line_spacing))]

draw_br(W, H, c, line_spacing) ==
  [k \in 1..Len(c.lines) |->
     draw_call(c, k, right_x(W, c, k),
               y_at(c, k, bottom_y0(H, c, line_spacing), line_spacing))]

add_text_overlays(W, H, tl, tr, bl, br, line_spacing) ==
  [tl |-> draw_tl(tl, line_spacing),
   tr |-> draw_tr(W, tr, line_spacing),
   bl |-> draw_bl(H, bl, line_spacing),
   br |-> draw_br(W, H, br, line_spacing)]

\* --------------------------------------------------------- configuration
\* A configuration: per corner the TEXT_LABEL_*, FONT_SIZE_* and offsets.
Corners == {"tl", "tr", "bl", "br"}

CornerCfg(label, size, ox, oy) ==
  [label |-> label, font_size |-> size, offset_x |-> ox, offset_y |-> oy]

Config(ltl, stl, ltr, str, lbl, sbl, lbr, sbr) ==
  [tl |-> CornerCfg(ltl, stl, OFFSET_X_TL, OFFSET_Y_TL),
   tr |-> CornerCfg(ltr, str, OFFSET_X_TR, OFFSET_Y_TR),
   bl |-> CornerCfg(lbl, sbl, OFFSET_X_BL, OFFSET_Y_BL),
   br |-> CornerCfg(lbr, sbr, OFFSET_X_BR, OFFSET_Y_BR)]

\* main: the base font and the big font of every corner
load_fonts(cfg, font_ok) ==
  [c \in Corners |->
     [font |-> load_font(font_ok, cfg[c].font_size),
      font_big |-> load_font(font_ok, big_size(cfg[c].font_size))]]

\* main: the four process_label calls of one frame
frame_lines(cfg, idx, total, pads) ==
  [c \in Corners |-> process_label(cfg[c].label, idx, total, pads)]

corner_arg(cfg, fonts, lines, c) ==
  [lines |-> lines[c], font |-> fonts[c].font, font_big |-> fonts[c].font_big,
   offset_x |-> cfg[c].offset_x, offset_y |-> cfg[c].offset_y]

\* main: the add_text_overlays call of one frame on an image of size W x H
frame_draw(cfg, fonts, lines, W, H) ==
  add_text_overlays(W, H,
                    corner_arg(cfg, fonts, lines, "tl"),
                    corner_arg(cfg, fonts, lines, "tr"),
                    corner_arg(cfg, fonts, lines, "bl"),
                    corner_arg(cfg, fonts, lines, "br"),
                    LINE_SPACING)

\* ------------------------------------------------------------ file system
\* A path is the sequence of its components (pathlib's parts of a relative
\* path); "." has none.  A component and a file name are texts.
DotDot == << ".", "." >>
OVERLAY_SUFFIX == << "-", "o", "v", "e", "r", "l", "a", "y" >>
PNG_SUFFIX == << ".", "p", "n", "g" >>

\* Path.name: the last component, "" for "."
path_name(parts) == IF parts = << >> THEN << >> ELSE parts[Len(parts)]

\* Path.parent: the path without its last component, "." for "."
path_parent(parts) ==
  IF parts = << >> THEN << >> ELSE SubSeq(parts, 1, Len(parts) - 1)

\* main: out_dir = in_dir.parent / f"{in_dir.name}-overlay"
out_dir_of(in_dir) ==
  path_parent(in_dir) \o << path_name(in_dir) \o OVERLAY_SUFFIX >>

\* The directory a relative path names, as the components below the root:
\* the operating system resolves ".." against the directory reached so far.
RECURSIVE resolve(_, _)
resolve(base, parts) ==
  IF parts = << >> THEN base
  ELSE IF Head(parts) = DotDot
       THEN resolve(IF base = << >> THEN << >>
                    ELSE SubSeq(base, 1, Len(base) - 1), Tail(parts))
       ELSE resolve(Append(base, Head(parts)), Tail(parts))

\* The working directory of a run.
Cwd == << << "w" >>, << "p" >> >>

\* Path.suffix of a file name: from the last dot, unless that dot is the
\* first or the last character
last_dot(name) ==
  LET dots == {i \in 1..Len(name) : name[i] = "."}
  IN IF dots = {} THEN 0 ELSE CHOOSE i \in dots : \A j \in dots : j <= i

path_suffix(name) ==
  LET i == last_dot(name)
  IN IF i > 1 /\ i < Len(name) THEN SubSeq(name, i, Len(name)) ELSE << >>

\* main: p.suffix.lower() == ".png" (a directory of that name passes too)
is_png(e) == Lower(path_suffix(e.name)) = PNG_SUFFIX

\* directory entries by name, last name first
RECURSIVE sorted_descending(_)
sorted_descending(S) ==
  IF S = {} THEN << >>
  ELSE LET m == CHOOSE x \in S : \A y \in S \ {x} : StrLess(y.name, x.name)
       IN << m >> \o sorted_descending(S \ {m})

\* sorted(...) of directory entries: by name, in code point order
RECURSIVE sorted(_)
sorted(S) ==
  IF S = {} THEN << >>
  ELSE LET m == CHOOSE x \in S : \A y \in S \ {x} : StrLess(x.name, y.name)
       IN << m >> \o sorted(S \ {m})

\* main: pngs = sorted([p for p in in_dir.iterdir() if ...])
list_pngs(entries) == sorted({e \in entries : is_png(e)})

\* ------------------------------------------------------------------ state
VARIABLES
  folder,      \* args.folder, as path components
  in_kind,     \* what the input path names: "missing", "file" or "dir"
  in_entries,  \* the entries of the input directory: [name, isdir]
  out,         \* the output directory: [exists, files], files: name -> content
  font_ok,     \* whether FONT_PATH_* can be loaded
  cfg,         \* the configuration constants of the run
  img,         \* << width, height >> of the input images
  pc,          \* "start", "loop", "exit" or "crashed"
  pngs,        \* main's pngs
  total,       \* main's total
  pads,        \* main's pad_width, pad_days, pad_hours
  fonts,       \* main's eight loaded fonts
  idx,         \* the frame the loop is at
  nfail,       \* frames that failed for an external reason so far
  log,         \* the lines printed so far
  exit_code,   \* the process's exit status, -1 while it runs
  run,         \* which run of the tool on this input this is, from 1
  out1,        \* the output directory as the first run left it
  f_pc,        \* filtered tool: "idle", "start", "loop" or "exit"
  f_in,        \* filtered tool: the input path, its entries, FILTER, the font
  f_all,       \* filtered tool: all_pngs
  f_pngs,      \* filtered tool: pngs, the files to process, in order
  f_idx,       \* filtered tool: the iteration the loop is at
  f_nfail,     \* filtered tool: frames that failed so far
  f_out,       \* filtered tool: the output directory
  f_log,       \* filtered tool: the lines printed so far
  f_exit,      \* filtered tool: the exit status, -1 while it runs
  m_pc,        \* single-line tool: "idle", "input" or "done"
  m_in,        \* single-line tool: a label, the frame index and the total
  m_text,      \* single-line tool: the label after replace_markers
  rev,         \* frame-reversal tool: its input, output and position
  sq,          \* centre-square cropper: one image and its crop box
  calc,        \* crop calculator: its frames, running box and position
  box,         \* box cropper: its arguments, frames, output and position
  rot,         \* frame rotator: rotation file, frames, output and position
  curve,       \* rotation-curve printer: scene, running sum, lines printed
  scl,         \* value scaler: input lines, minimum, output file
  r_pc,        \* SpecRender: "idle", "input", "lines" or "drawn"
  r_in,        \* SpecRender: the inputs of one frame's rendering
  r_pads,      \* SpecRender: pad_width, pad_days, pad_hours
  r_lines,     \* SpecRender: the process_label results, per corner
  r_draw       \* SpecRender: the draw calls, per corner

main_vars == << folder, in_kind, in_entries, out, font_ok, cfg, img, pc, pngs,
                total, pads, fonts, idx, nfail, log, exit_code, run, out1 >>

filter_vars == << f_pc, f_in, f_all, f_pngs, f_idx, f_nfail, f_out, f_log,
                  f_exit >>

marker_vars == << m_pc, m_in, m_text >>

util_vars == << rev, sq, calc, box, rot, curve, scl >>

tool_vars == << filter_vars, marker_vars, util_vars >>

hist_vars == << run, out1, tool_vars >>

render_vars == << r_pc, r_in, r_pads, r_lines, r_draw >>

vars == << folder, in_kind, in_entries, out, font_ok, cfg, img, pc, pngs,
           total, pads, fonts, idx, nfail, log, exit_code, run, out1,
           r_pc, r_in, r_pads, r_lines, r_draw,
           f_pc, f_in, f_all, f_pngs, f_idx, f_nfail, f_out, f_log, f_exit,
           m_pc, m_in, m_text, rev, sq, calc, box, rot, curve, scl >>

\* ----------------------------------------------------------------- inputs
File(name) == [name |-> name, isdir |-> FALSE]
Dir(name) == [name |-> name, isdir |-> TRUE]

\* the k-th frame file of an input directory, numbered without padding:
\* 7.png, 14.png, 21.png, 5.png, 12.png, ... (name order is not numeric order)
PngName(k) == Str((7 * k) % 23) \o PNG_SUFFIX

NOTES_TXT == << "n", "o", "t", "e", "s", ".", "t", "x", "t" >>
Z_PNG == << "Z", ".", "P", "N", "G" >>
D_PNG == << "d", ".", "p", "n", "g" >>
OLD_PNG == << "o", "l", "d", ".", "p", "n", "g" >>

ExtraSets == { {}, {File(NOTES_TXT), File(Z_PNG)}, {Dir(D_PNG)} }

InputDirs ==
  { {File(PngName(k)) : k \in 1..n} \cup extra :
      n \in 0..MaxFrames, extra \in ExtraSets }

FR == << "f", "r" >>
RN == << "r", "n" >>

Folders == { << >>, << FR >>, << RN, FR >> }

StaleFile == [kind |-> "stale"]
PartialFile == [kind |-> "partial"]
NoFiles == [n \in {} |-> StaleFile]

NoOutput == [exists |-> FALSE, files |-> NoFiles]

OutputDirs ==
  { [exists |-> FALSE, files |-> NoFiles],
    [exists |-> TRUE, files |-> NoFiles],
    [exists |-> TRUE, files |-> [n \in {PngName(1), OLD_PNG} |-> StaleFile]] }

\* TEXT_LABEL_TL, TEXT_LABEL_BL: the values the script ends up with
TEXT_LABEL_TL ==
  ListLabel(<<
    Item(<< "!", "E", "C", "D", "O", "s", "i", "m", " ", "v", "1", "1", ":",
            " ", "S", "1", " ", "-", ">", " ", "S", "2" >>),
    Item(<< "P", "a", "r", "t", "i", "c", "l", "e", " ", "V", "e", "l", "o",
            "c", "i", "t", "y", " ", "V", "i", "e", "w" >>),
    Item(<< "P", "i", "v", "o", "t", "s", ":", " ", "(", "-", "2", "0", " ",
            "S", ",", "1", "3", "0", " ", "E", ")", ",", " ", "(", "2", "0",
            " ", "N", ",", "-", "5", "0", " ", "W", ")" >>) >>)

TEXT_LABEL_BL ==
  ListLabel(<<
    Item(<< "2", "5", "0", "0", "x", "2", "5", "0", "0", " ", "p", "i", "x",
            "e", "l", "s" >>),
    Item(<< "~", "1", "3", "8", " ", "m", "i", "l", "l", "i", "o", "n", " ",
            "p", "a", "r", "t", "i", "c", "l", "e", "s" >>) >>)

FRAME_OF_TOTAL == << "F", "r", "a", "m", "e", " ", Backtick, "/", "^" >>

\* TEXT_LABEL_TR as first assigned (and as script92-right.py has it)
TEXT_LABEL_TR_TIME == ListLabel(<< Item(TIME), Item(FRAME_OF_TOTAL) >>)

\* the configuration as the script has it, and with the top-right label on
SourceConfig ==
  Config(TEXT_LABEL_TL, 50, ListLabel(<< >>), 64,
         TEXT_LABEL_BL, 50, ListLabel(<< >>), 50)

TimeConfig ==
  Config(TEXT_LABEL_TL, 50, TEXT_LABEL_TR_TIME, 64,
         TEXT_LABEL_BL, 50, ListLabel(<< >>), 50)

MainConfigs == {SourceConfig, TimeConfig}

MainImages == { << 2500, 2500 >> }

NoPads == [width |-> 0, days |-> 0, hours |-> 0]
NoFonts == [c \in Corners |-> [font |-> load_font(FALSE, 0),
                               font_big |-> load_font(FALSE, 0)]]
NoLines == [c \in Corners |-> << >>]
NoInput == [label |-> NoneLabel, size |-> 0, font_ok |-> FALSE,
            W |-> 0, H |-> 0, idx |-> 0, total |-> 0]

RenderIdle ==
  /\ r_pc = "idle"
  /\ r_in = NoInput
  /\ r_pads = NoPads
  /\ r_lines = NoLines
  /\ r_draw = NoLines

\* the filtered tool and the single-line tool before they run
NoFilterInput == [kind |-> "dir", entries |-> {}, filter |-> << >>,
                  font_ok |-> TRUE]

FilterIdle ==
  /\ f_pc = "idle"
  /\ f_in = NoFilterInput
  /\ f_all = << >>
  /\ f_pngs = << >>
  /\ f_idx = 0
  /\ f_nfail = 0
  /\ f_out = NoOutput
  /\ f_log = << >>
  /\ f_exit = -1

NoMarkerInput == [label |-> << >>, idx |-> 0, total |-> 0]

MarkerIdle ==
  /\ m_pc = "idle"
  /\ m_in = NoMarkerInput
  /\ m_text = << >>

\* a utility script before it runs
Idle == [pc |-> "idle"]

UtilIdle ==
  /\ rev = Idle
  /\ sq = Idle
  /\ calc = Idle
  /\ box = Idle
  /\ rot = Idle
  /\ curve = Idle
  /\ scl = Idle

ToolIdle == FilterIdle /\ MarkerIdle /\ UtilIdle

\* ------------------------------------------------------------ the run
in_dir == folder
out_dir == out_dir_of(folder)

\* whether out_dir.mkdir creates its directory directly inside the input one
out_in_input(f) ==
  path_parent(resolve(Cwd, out_dir_of(f))) = resolve(Cwd, f)

out_entry(f) == Dir(path_name(out_dir_of(f)))

Init ==
  /\ folder \in Folders
  /\ in_kind \in (IF folder = << FR >> THEN {"missing", "file", "dir"}
                  ELSE {"dir"})
  /\ out \in OutputDirs
  /\ \E d \in InputDirs :
       in_entries = IF in_kind # "dir" THEN {}
                    ELSE IF out.exists /\ out_in_input(folder)
                    THEN d \cup {out_entry(folder)}
                    ELSE d
  /\ font_ok \in BOOLEAN
  /\ cfg \in MainConfigs
  /\ img \in MainImages
  /\ pc = "start"
  /\ pngs = << >>
  /\ total = 0
  /\ pads = NoPads
  /\ fonts = NoFonts
  /\ idx = 0
  /\ nfail = 0
  /\ log = << >>
  /\ exit_code = -1
  /\ run = 1
  /\ out1 = NoOutput
  /\ RenderIdle
  /\ ToolIdle

\* out_dir.mkdir(parents=True, exist_ok=True)
mkdir_out(o) == [o EXCEPT !.exists = TRUE]

entries_after_mkdir ==
  IF out_in_input(folder) THEN in_entries \cup {out_entry(folder)}
  ELSE in_entries

\* the [warn] lines if only the four base fonts were loaded
font_warnings_base_only(ok) ==
  IF ok THEN << >> ELSE [i \in 1..Cardinality(Corners) |-> [kind |-> "warn"]]

\* the [warn] lines of the eight load_font calls
font_warnings(ok) == IF ok THEN << >> ELSE [i \in 1..8 |-> [kind |-> "warn"]]

\* sys.exit(1) on a bad input path, sys.exit(0) on a folder without PNGs
exit_bad_input == 1

\* a folder without PNGs treated as the bad input path is
exit_no_pngs_as_error == exit_bad_input

exit_no_pngs == 0

\* the output directory if the bad-path exit came after out_dir.mkdir
out_after_bad_input_mkdir(o) == mkdir_out(o)

\* the output directory after the bad-path exit: main has not reached mkdir
out_after_bad_input(o) == o

\* main, lines 252-255: the input path is missing or not a directory
StartBadInput ==
  /\ pc = "start"
  /\ in_kind # "dir"
  /\ log' = Append(log, [kind |-> "not_a_directory"])
  /\ exit_code' = exit_bad_input
  /\ out' = out_after_bad_input(out)
  /\ pc' = "exit"
  /\ UNCHANGED << folder, in_kind, in_entries, font_ok, cfg, img, pngs,
                  total, pads, fonts, idx, nfail >>
  /\ UNCHANGED render_vars
  /\ UNCHANGED hist_vars

\* main, lines 252-264: a directory without PNGs
StartNoPngs ==
  /\ pc = "start"
  /\ in_kind = "dir"
  /\ list_pngs(entries_after_mkdir) = << >>
  /\ out' = mkdir_out(out)
  /\ in_entries' = entries_after_mkdir
  /\ log' = Append(log, [kind |-> "no_pngs"])
  /\ exit_code' = exit_no_pngs
  /\ pc' = "exit"
  /\ UNCHANGED << folder, in_kind, font_ok, cfg, img, pngs, total, pads,
                  fonts, idx, nfail >>
  /\ UNCHANGED render_vars
  /\ UNCHANGED hist_vars

\* main, lines 252-287: everything before the frame loop
StartRun ==
  /\ pc = "start"
  /\ in_kind = "dir"
  /\ list_pngs(entries_after_mkdir) # << >>
  /\ out' = mkdir_out(out)
  /\ in_entries' = entries_after_mkdir
  /\ pngs' = list_pngs(entries_after_mkdir)
  /\ total' = Len(pngs')
  /\ pads' = compute_pads(total')
  /\ fonts' = load_fonts(cfg, font_ok)
  /\ log' = log \o font_warnings(font_ok)
  /\ idx' = 1
  /\ pc' = "loop"
  /\ UNCHANGED << folder, in_kind, font_ok, cfg, img, nfail, exit_code >>
  /\ UNCHANGED render_vars
  /\ UNCHANGED hist_vars

\* what result.save(dst) leaves at dst
overlay_file(src, i) ==
  [kind |-> "overlay", src |-> src.name,
   draw |-> frame_draw(cfg, fonts, frame_lines(cfg, i, total, pads),
                       img[1], img[2])]

\* a save that never overwrites: a name already taken gets a "~" appended
put_file_beside_existing(o, name, content) ==
  LET dst == IF name \in DOMAIN o.files THEN name \o << "~" >> ELSE name
  IN [o EXCEPT !.files = [n \in (DOMAIN o.files) \cup {dst} |->
                            IF n = dst THEN content ELSE o.files[n]]]

put_file(o, name, content) ==
  [o EXCEPT !.files = [n \in (DOMAIN o.files) \cup {name} |->
                         IF n = name THEN content ELSE o.files[n]]]

\* enumerate(pngs, 1): the index of the next iteration
next_idx(i) == i + 1

\* a loop body without the except clause: the exception ends the run
on_frame_exception_uncaught == "crashed"

\* the except clause of the loop body: the loop goes on
on_frame_exception == "loop"

\* main, lines 289-366: one iteration that runs to its print
FrameOk ==
  /\ pc = "loop"
  /\ idx <= total
  /\ ~pngs[idx].isdir
  /\ out' = put_file(out, pngs[idx].name, overlay_file(pngs[idx], idx))
  /\ log' = Append(log, [kind |-> "ok", idx |-> idx, total |-> total,
                         name |-> pngs[idx].name])
  /\ idx' = next_idx(idx)
  /\ UNCHANGED << folder, in_kind, in_entries, font_ok, cfg, img, pc, pngs,
                  total, pads, fonts, nfail, exit_code >>
  /\ UNCHANGED render_vars
  /\ UNCHANGED hist_vars

\* what a save that raises leaves at dst: a file that was there is truncated,
\* one the save created is removed again
after_failed_save(o, name) ==
  IF name \in DOMAIN o.files THEN put_file(o, name, PartialFile) ELSE o

\* main, lines 289-369: one iteration in which Image.open, add_text_overlays
\* or result.save raises; a directory named *.png always fails to open
FrameFail(stage) ==
  /\ pc = "loop"
  /\ idx <= total
  /\ IF pngs[idx].isdir THEN stage = "open" ELSE nfail < MaxFail
  /\ out' = IF stage = "save" THEN after_failed_save(out, pngs[idx].name)
            ELSE out
  /\ log' = Append(log, [kind |-> "failed", name |-> pngs[idx].name])
  /\ nfail' = IF pngs[idx].isdir THEN nfail ELSE nfail + 1
  /\ idx' = next_idx(idx)
  /\ pc' = on_frame_exception
  /\ exit_code' = IF on_frame_exception = "loop" THEN exit_code ELSE 1
  /\ UNCHANGED << folder, in_kind, in_entries, font_ok, cfg, img, pngs,
                  total, pads, fonts >>
  /\ UNCHANGED render_vars
  /\ UNCHANGED hist_vars

\* main, line 371: the summary after the loop
Finish ==
  /\ pc = "loop"
  /\ idx > total
  /\ log' = Append(log, [kind |-> "done", count |-> total, dir |-> out_dir])
  /\ exit_code' = 0
  /\ pc' = "exit"
  /\ UNCHANGED << folder, in_kind, in_entries, out, font_ok, cfg, img, pngs,
                  total, pads, fonts, idx, nfail >>
  /\ UNCHANGED render_vars
  /\ UNCHANGED hist_vars

\* the tool is run again on the same folder, with the input directory, the
\* output directory and the configuration as the run before left them; a run
\* is repeated when no frame of it failed for an external reason
Rerun ==
  /\ pc = "exit"
  /\ run < MaxRuns
  /\ nfail = 0
  /\ run' = run + 1
  /\ out1' = IF run = 1 THEN out ELSE out1
  /\ pc' = "start"
  /\ pngs' = << >>
  /\ total' = 0
  /\ pads' = NoPads
  /\ fonts' = NoFonts
  /\ idx' = 0
  /\ log' = << >>
  /\ exit_code' = -1
  /\ UNCHANGED << folder, in_kind, in_entries, out, font_ok, cfg, img, nfail >>
  /\ UNCHANGED render_vars
  /\ UNCHANGED tool_vars

Next ==
  \/ StartBadInput
  \/ StartNoPngs
  \/ StartRun
  \/ FrameOk
  \/ \E stage \in {"open", "render", "save"} : FrameFail(stage)
  \/ Finish
  \/ Rerun

Spec == Init /\ [][Next]_vars

\* ------------------------------------------- one frame's rendering alone
\* The label and layout functions applied to one frame: a label and a font
\* size given to all four corners, on an image of a given size.
L_EMPTY == StrLabel(<< >>)
L_BLANK == StrLabel(<< " ", " " >>)
L_FRAME == StrLabel(FRAME_OF_TOTAL)
L_TIME_SPACED == StrLabel(<< " ", "T", "I", "M", "E", " " >>)
L_BIG_TOKEN == StrLabel(<< "!", "F", Backtick >>)
L_SCALAR == ScalarLabel(<< "5" >>)
L_NO_LINES == ListLabel(<< >>)
L_DROPS ==
  ListLabel(<< Item(<< >>), Item(<< "a" >>), NoneItem, Item(<< " " >>),
               Item(<< "x", " " >>) >>)
L_BANG == ListLabel(<< Item(<< "!" >>) >>)
L_BANG_LINES ==
  ListLabel(<< Item(<< "a" >>), Item(<< "!", " " >>), Item(<< "x" >>) >>)
L_BANG_SPACE_TIME == ListLabel(<< Item(<< "!", " ", "T", "I", "M", "E" >>) >>)
L_BANG_SPACE_TEXT == ListLabel(<< Item(<< "!", " ", "a", Backtick >>) >>)
L_BIG_TIME ==
  ListLabel(<< Item(<< "!", "T", "I", "M", "E" >>),
               Item(<< "x", "T", "I", "M", "E", Backtick >>),
               Item(<< "T", "I", "M", "E", "^" >>) >>)
L_BANG_BANG == ListLabel(<< Item(<< "!", "!", "x" >>) >>)
L_TOKENS == ListLabel(<< Item(<< Backtick, Backtick, "^", "^" >>) >>)
L_MANY ==
  ListLabel(<< Item(<< "a" >>), Item(<< "!", "x" >>), Item(<< "a" >>),
               Item(<< "x" >>), Item(<< "!", "a" >>) >>)

Labels ==
  { NoneLabel, L_EMPTY, L_BLANK, L_FRAME, L_TIME_SPACED, L_BIG_TOKEN,
    L_SCALAR, L_NO_LINES, L_DROPS, L_BANG, L_BANG_LINES, L_BANG_SPACE_TIME,
    L_BANG_SPACE_TEXT, L_BIG_TIME, L_BANG_BANG, L_TOKENS, L_MANY,
    TEXT_LABEL_TL, TEXT_LABEL_BL, TEXT_LABEL_TR_TIME }

\* the values the scripts give FONT_SIZE_*
FontSizes == {10, 13, 15, 50, 64}

ImageSizes == { << 2500, 2500 >>, << 640, 360 >> }

\* every frame of every sequence up to MaxTotal frames, with the top-right
\* label of script92-right.py
SweepInput(i, n) ==
  [label |-> TEXT_LABEL_TR_TIME, size |-> 64, font_ok |-> TRUE,
   W |-> 2500, H |-> 2500, idx |-> i, total |-> n]

\* every label, font size, font outcome and image size, on short sequences
LabelInput(l, sz, ok, im, i, n) ==
  [label |-> l, size |-> sz, font_ok |-> ok,
   W |-> im[1], H |-> im[2], idx |-> i, total |-> n]

MainIdle ==
  /\ folder = << >>
  /\ in_kind = "dir"
  /\ in_entries = {}
  /\ out = [exists |-> FALSE, files |-> NoFiles]
  /\ font_ok = TRUE
  /\ cfg = SourceConfig
  /\ img = << 0, 0 >>
  /\ pc = "idle"
  /\ pngs = << >>
  /\ total = 0
  /\ pads = NoPads
  /\ fonts = NoFonts
  /\ idx = 0
  /\ nfail = 0
  /\ log = << >>
  /\ exit_code = -1
  /\ run = 1
  /\ out1 = NoOutput

RenderStart ==
  /\ MainIdle
  /\ ToolIdle
  /\ r_pc = "input"
  /\ r_pads = NoPads
  /\ r_lines = NoLines
  /\ r_draw = NoLines

RenderInit ==
  /\ RenderStart
  /\ \E n \in 1..MaxSmallTotal : \E i \in 1..n :
       \E l \in Labels, sz \in FontSizes, ok \in BOOLEAN, im \in ImageSizes :
         r_in = LabelInput(l, sz, ok, im, i, n)

SweepInit ==
  /\ RenderStart
  /\ \E n \in 1..MaxTotal : \E i \in 1..n : r_in = SweepInput(i, n)

\* the configuration of a rendering: the label and the size in every corner
r_cfg(in) ==
  Config(in.label, in.size, in.label, in.size,
         in.label, in.size, in.label, in.size)

\* main, lines 266-320: the pad widths and the four process_label calls
RenderLabels ==
  /\ r_pc = "input"
  /\ r_pads' = compute_pads(r_in.total)
  /\ r_lines' = frame_lines(r_cfg(r_in), r_in.idx, r_in.total, r_pads')
  /\ r_pc' = "lines"
  /\ UNCHANGED << r_in, r_draw >>
  /\ UNCHANGED main_vars
  /\ UNCHANGED tool_vars

\* main, lines 268-278 and 322-357: the fonts and the add_text_overlays call
RenderLayout ==
  /\ r_pc = "lines"
  /\ r_draw' = frame_draw(r_cfg(r_in), load_fonts(r_cfg(r_in), r_in.font_ok),
                          r_lines, r_in.W, r_in.H)
  /\ r_pc' = "drawn"
  /\ UNCHANGED << r_in, r_pads, r_lines >>
  /\ UNCHANGED main_vars
  /\ UNCHANGED tool_vars

RenderNext == RenderLabels \/ RenderLayout

\* every label on short sequences
SpecRender == RenderInit /\ [][RenderNext]_vars

\* the top-right label on every frame of every sequence up to MaxTotal
SpecSweep == SweepInit /\ [][RenderNext]_vars

\* ------------------------------------------------------ the filtered tool
\* script91-quadruple-filter.py: one text per corner, and a FILTER list that
\* limits which PNGs are processed.
TEXT_LABEL_TL_91 ==
  << "E", "C", "D", "O", "s", "i", "m", " ", "v", "1", "1", " ", "(", "T",
     "e", "s", "t", " ", "R", "e", "n", "d", "e", "r", ")" >>

TEXT_LABEL_TR_91 == FRAME_OF_TOTAL

TEXT_LABEL_BL_91 ==
  << "~", "3", "5", " ", "m", "m", " ", "p", "a", "r", "t", "i", "c", "l",
     "e", "s", ",", " ", "P", "i", "v", "o", "t", "s", ":", " ", "(", "-",
     "2", "0", " ", "S", ",", "1", "3", "0", " ", "E", ")", ",", " ", "(",
     "2", "0", " ", "N", ",", "-", "5", "0", " ", "W", ")" >>

TEXT_LABEL_BR_91 ==
  << "B", "y", " ", "J", "u", "n", "h", "o", " ", "(", "N", "o", "v", ".",
     " ", "2", "0", "2", "5", ")", " ", "@", " ", "s", "o", "v", "r", "y",
     "n", "n", ".", "g", "i", "t", "h", "u", "b", ".", "i", "o" >>

\* all_pngs: the files (not directories) with the suffix, sorted
all_pngs(entries) == sorted({e \in entries : ~e.isdir /\ is_png(e)})

names_of(all) == {all[i].name : i \in 1..Len(all)}

\* alpha_index[name]: the 1-based position among all PNGs of the folder
alpha_index(all, name) == CHOOSE i \in 1..Len(all) : all[i].name = name

\* requested = set(FILTER)
requested(filter) == {filter[i] : i \in 1..Len(filter)}

\* the requested names that are not PNG files of the folder
missing(filter, all) == requested(filter) \ names_of(all)

\* the orders in which a set can be iterated
Orders(S) ==
  {o \in [1..Cardinality(S) -> S] :
     \A i, j \in 1..Cardinality(S) : o[i] = o[j] => i = j}

\* pngs: the requested files found, in the iteration order of the set, or
\* all_pngs when FILTER is empty
filtered_pngs(filter, all) ==
  IF filter # << >>
  THEN Orders({e \in names_of(all) : e \in requested(filter)})
  ELSE {[i \in 1..Len(all) |-> all[i].name]}

\* the frame number if it were the position in the processing order
frame_str_91_by_order(all, name, pos) == ZFill(Str(pos), Len(Str(Len(all))))

\* frame_str: alpha_pos zero-padded to the digits of the folder's PNG count
frame_str_91(all, name, pos) ==
  ZFill(Str(alpha_index(all, name)), Len(Str(Len(all))))

replace_tokens_91(text, all, name, pos) ==
  IF text = << >> THEN << >>
  ELSE Replace(Replace(text, Backtick, frame_str_91(all, name, pos)),
               "^", Str(Len(all)))

\* what result.save(dst) leaves at dst: the four texts drawn on the image
overlay_file_91(all, name, pos) ==
  [kind |-> "overlay", src |-> name,
   text |-> [tl |-> replace_tokens_91(TEXT_LABEL_TL_91, all, name, pos),
             tr |-> replace_tokens_91(TEXT_LABEL_TR_91, all, name, pos),
             bl |-> replace_tokens_91(TEXT_LABEL_BL_91, all, name, pos),
             br |-> replace_tokens_91(TEXT_LABEL_BR_91, all, name, pos)]]

\* the folders and FILTER lists given to the tool
FilterName(k) == ZFill(Str(170 + k), 4) \o PNG_SUFFIX

X_PNG == << "x", ".", "p", "n", "g" >>

FilterExtras == { {}, {Dir(FilterName(0)), File(NOTES_TXT)} }

FilterFolders ==
  { {File(FilterName(k)) : k \in 1..n} \cup extra :
      n \in 0..MaxFilterFrames, extra \in FilterExtras }

Filters ==
  { << >>,
    << FilterName(2), FilterName(5) >>,
    << FilterName(5), FilterName(2) >>,
    << FilterName(5), FilterName(5) >>,
    << FilterName(11), FilterName(2), X_PNG >>,
    << X_PNG >>,
    << FilterName(0), NOTES_TXT >> }

FilterInit ==
  /\ MainIdle
  /\ RenderIdle
  /\ MarkerIdle
  /\ UtilIdle
  /\ f_pc = "start"
  /\ \E k \in {"missing", "dir"}, d \in FilterFolders, f \in Filters,
        ok \in BOOLEAN :
       f_in = [kind |-> k, entries |-> IF k = "dir" THEN d ELSE {},
               filter |-> f, font_ok |-> ok]
  /\ f_all = << >>
  /\ f_pngs = << >>
  /\ f_idx = 0
  /\ f_nfail = 0
  /\ f_out \in {NoOutput, [exists |-> TRUE, files |-> NoFiles]}
  /\ f_log = << >>
  /\ f_exit = -1

\* the [warn] line for requested files that were not found
missing_warning(filter, all) ==
  IF filter # << >> /\ missing(filter, all) # {}
  THEN << [kind |-> "warn_missing", names |-> missing(filter, all)] >>
  ELSE << >>

\* the [warn] lines of the four load_font calls
font_warnings_91(ok) ==
  IF ok THEN << >> ELSE [i \in 1..4 |-> [kind |-> "warn"]]

\* main, lines 133-136
FilterBadInput ==
  /\ f_pc = "start"
  /\ f_in.kind # "dir"
  /\ f_log' = Append(f_log, [kind |-> "not_a_directory"])
  /\ f_exit' = 1
  /\ f_pc' = "exit"
  /\ UNCHANGED << f_in, f_all, f_pngs, f_idx, f_nfail, f_out >>
  /\ UNCHANGED << main_vars, render_vars, marker_vars, util_vars >>

\* main, lines 133-147: a folder without PNG files
FilterNoPngs ==
  /\ f_pc = "start"
  /\ f_in.kind = "dir"
  /\ all_pngs(f_in.entries) = << >>
  /\ f_out' = mkdir_out(f_out)
  /\ f_log' = Append(f_log, [kind |-> "no_pngs"])
  /\ f_exit' = 0
  /\ f_pc' = "exit"
  /\ UNCHANGED << f_in, f_all, f_pngs, f_idx, f_nfail >>
  /\ UNCHANGED << main_vars, render_vars, marker_vars, util_vars >>

\* main, lines 133-167: none of the requested files is in the folder
FilterNoMatch ==
  /\ f_pc = "start"
  /\ f_in.kind = "dir"
  /\ all_pngs(f_in.entries) # << >>
  /\ filtered_pngs(f_in.filter, all_pngs(f_in.entries)) = {<< >>}
  /\ f_out' = mkdir_out(f_out)
  /\ f_all' = all_pngs(f_in.entries)
  /\ f_log' = f_log \o missing_warning(f_in.filter, f_all')
                    \o << [kind |-> "no_match"] >>
  /\ f_exit' = 0
  /\ f_pc' = "exit"
  /\ UNCHANGED << f_in, f_pngs, f_idx, f_nfail >>
  /\ UNCHANGED << main_vars, render_vars, marker_vars, util_vars >>

\* main, lines 133-175: everything before the frame loop
FilterStart ==
  /\ f_pc = "start"
  /\ f_in.kind = "dir"
  /\ all_pngs(f_in.entries) # << >>
  /\ f_all' = all_pngs(f_in.entries)
  /\ f_pngs' \in filtered_pngs(f_in.filter, f_all')
  /\ f_pngs' # << >>
  /\ f_out' = mkdir_out(f_out)
  /\ f_log' = f_log \o missing_warning(f_in.filter, f_all')
                    \o font_warnings_91(f_in.font_ok)
  /\ f_idx' = 1
  /\ f_pc' = "loop"
  /\ UNCHANGED << f_in, f_nfail, f_exit >>
  /\ UNCHANGED << main_vars, render_vars, marker_vars, util_vars >>

\* main, lines 177-213: one iteration that runs to its print
FilterFrameOk ==
  /\ f_pc = "loop"
  /\ f_idx <= Len(f_pngs)
  /\ f_out' = put_file(f_out, f_pngs[f_idx],
                       overlay_file_91(f_all, f_pngs[f_idx], f_idx))
  /\ f_log' = Append(f_log, [kind |-> "ok", idx |-> f_idx,
                             total |-> Len(f_pngs), name |-> f_pngs[f_idx]])
  /\ f_idx' = f_idx + 1
  /\ UNCHANGED << f_in, f_all, f_pngs, f_nfail, f_pc, f_exit >>
  /\ UNCHANGED << main_vars, render_vars, marker_vars, util_vars >>

\* main, lines 177-215: one iteration in which the image cannot be opened
FilterFrameFail ==
  /\ f_pc = "loop"
  /\ f_idx <= Len(f_pngs)
  /\ f_nfail < MaxFail
  /\ f_nfail' = f_nfail + 1
  /\ f_log' = Append(f_log, [kind |-> "failed", name |-> f_pngs[f_idx]])
  /\ f_idx' = f_idx + 1
  /\ UNCHANGED << f_in, f_all, f_pngs, f_out, f_pc, f_exit >>
  /\ UNCHANGED << main_vars, render_vars, marker_vars, util_vars >>

\* main, line 217
FilterFinish ==
  /\ f_pc = "loop"
  /\ f_idx > Len(f_pngs)
  /\ f_log' = Append(f_log, [kind |-> "done", count |-> Len(f_pngs)])
  /\ f_exit' = 0
  /\ f_pc' = "exit"
  /\ UNCHANGED << f_in, f_all, f_pngs, f_idx, f_nfail, f_out >>
  /\ UNCHANGED << main_vars, render_vars, marker_vars, util_vars >>

FilterNext ==
  \/ FilterBadInput
  \/ FilterNoPngs
  \/ FilterNoMatch
  \/ FilterStart
  \/ FilterFrameOk
  \/ FilterFrameFail
  \/ FilterFinish

SpecFilter == FilterInit /\ [][FilterNext]_vars

\* --------------------------------------------------- the single-line tool
\* script7-right.py: replace_markers applied to a corner label for frame idx
\* of total, as main calls it.
replace_markers(s, frame, total_str) ==
  IF s = << >> THEN s
  ELSE Replace(Replace(s, Backtick, frame), ";", total_str)

\* main: frame_str and total_str of a frame
frame_str_7(i, n) == ZFill(Str(i), Len(Str(n)))

total_str_7(n) == Str(n)

\* TEXT_LABEL_TR and TEXT_LABEL_BR of the script, the label its docstring
\* describes, and labels with several markers
TEXT_LABEL_TR_7 == << "F", "r", "a", "m", "e", " ", Backtick, "/", ";" >>

TEXT_LABEL_BR_7 ==
  << "B", "y", " ", "J", "u", "n", "h", "o", " ", "(", "N", "o", "v", ".",
     " ", "2", "0", "2", "5", ")", " ", "@", " ", "s", "o", "v", "r", "y",
     "n", "n", ".", "g", "i", "t", "h", "u", "b", ".", "i", "o" >>

LABEL_TILDE == << "F", "r", "a", "m", "e", " ", Backtick, "/", "~" >>

LABEL_REPEATED == << "~", Backtick, "~", " ", Backtick >>

MarkerLabels ==
  { << >>, TEXT_LABEL_TR_7, TEXT_LABEL_BR_7, LABEL_TILDE, LABEL_REPEATED }

MarkerInit ==
  /\ MainIdle
  /\ RenderIdle
  /\ FilterIdle
  /\ UtilIdle
  /\ m_pc = "input"
  /\ \E l \in MarkerLabels : \E n \in 1..MaxMarkerTotal : \E i \in 1..n :
       m_in = [label |-> l, idx |-> i, total |-> n]
  /\ m_text = << >>

\* main, lines 152-157: one label of one frame
MarkerApply ==
  /\ m_pc = "input"
  /\ m_text' = replace_markers(m_in.label, frame_str_7(m_in.idx, m_in.total),
                               total_str_7(m_in.total))
  /\ m_pc' = "done"
  /\ UNCHANGED m_in
  /\ UNCHANGED << main_vars, render_vars, filter_vars, util_vars >>

MarkerNext == MarkerApply

SpecMarkers == MarkerInit /\ [][MarkerNext]_vars

\* ============================================== the frame-reversal tool
\* 0-render-scripts/script94-reverse.py

\* the PNG files of a folder given to the frame-reversal tool
MaxReverseFrames == 11

\* Path.stem: the name without its suffix
path_stem(name) == SubSeq(name, 1, Len(name) - Len(path_suffix(name)))

\* str.isdigit(): not empty and every character a digit
isdigit(s) == s # << >> /\ \A i \in 1..Len(s) : IsDigit(s[i])

\* main: png_files, the plain files with a .png suffix, sorted by name
png_files_of(entries) == sorted({e \in entries : ~e.isdir /\ is_png(e)})

\* main: digit_lengths, as the set of its values
digit_lengths(files) ==
  {Len(path_stem(files[i].name)) :
     i \in {j \in 1..Len(files) : isdigit(path_stem(files[j].name))}}

\* main: pad_width = max(digit_lengths) if digit_lengths else 4
pad_width_94(files) ==
  LET d == digit_lengths(files)
  IN IF d = {} THEN 4 ELSE CHOOSE m \in d : \A x \in d : x <= m

\* reversed(png_files)
reversed(s) == [i \in 1..Len(s) |-> s[Len(s) + 1 - i]]

\* main: dst_name = f"{idx:0{pad_width}d}.png"
dst_name_94(i, pad_width) == ZFill(Str(i), pad_width) \o PNG_SUFFIX

\* the content of the frame file of that name in the folder first given
Frame(name) == [kind |-> "frame", of |-> name]

\* the namings of a folder of n frames: 0.png 1.png ..., 0001.png 0002.png
\* ..., f1.png f2.png ..., and 7.png among f1.png f2.png ...
ReverseNames(n) ==
  { {Str(k - 1) \o PNG_SUFFIX : k \in 1..n},
    {ZFill(Str(k), 4) \o PNG_SUFFIX : k \in 1..n},
    {<< "f" >> \o Str(k) \o PNG_SUFFIX : k \in 1..n},
    {<< "7" >> \o PNG_SUFFIX} \cup
      {<< "f" >> \o Str(k) \o PNG_SUFFIX : k \in 1..(n - 1)} }

ReverseExtras == { {}, {File(NOTES_TXT), Dir(D_PNG)} }

ReverseOutputs ==
  { [exists |-> FALSE, files |-> NoFiles],
    [exists |-> TRUE, files |-> NoFiles],
    [exists |-> TRUE, files |-> [n \in {OLD_PNG} |-> StaleFile]] }

\* the contents of the files of a listing, in its order
contents(data, files) == [i \in 1..Len(files) |-> data[files[i].name]]

ReverseInit ==
  /\ MainIdle
  /\ RenderIdle
  /\ FilterIdle
  /\ MarkerIdle
  /\ sq = Idle /\ calc = Idle /\ box = Idle /\ rot = Idle
  /\ curve = Idle /\ scl = Idle
  /\ \E k \in {"missing", "dir"}, n \in 0..MaxReverseFrames,
        extra \in ReverseExtras, o \in ReverseOutputs :
       \E names \in ReverseNames(n) :
         LET files == IF k = "dir" THEN {File(nm) : nm \in names} ELSE {}
             entries == IF k = "dir" THEN files \cup extra ELSE {}
         IN rev = [pc |-> "start", pass |-> 1, kind |-> k,
                   entries |-> entries,
                   data |-> [nm \in {e.name : e \in files} |-> Frame(nm)],
                   first |-> contents([nm \in {e.name : e \in files} |->
                                         Frame(nm)],
                                      png_files_of(entries)),
                   out0 |-> o, out |-> o, png_files |-> << >>,
                   pad_width |-> 0, idx |-> 0, exit |-> -1]

\* main, lines 19-23: the input is not a directory
ReverseBadInput ==
  /\ rev.pc = "start"
  /\ rev.kind # "dir"
  /\ rev' = [rev EXCEPT !.pc = "exit", !.exit = 1]
  /\ UNCHANGED << main_vars, render_vars, filter_vars, marker_vars >>
  /\ UNCHANGED << sq, calc, box, rot, curve, scl >>

\* main, lines 26-33: no PNG file
ReverseNoPngs ==
  /\ rev.pc = "start"
  /\ rev.kind = "dir"
  /\ png_files_of(rev.entries) = << >>
  /\ rev' = [rev EXCEPT !.pc = "exit", !.exit = 1]
  /\ UNCHANGED << main_vars, render_vars, filter_vars, marker_vars >>
  /\ UNCHANGED << sq, calc, box, rot, curve, scl >>

\* main, lines 26-49: the listing, the padding width, the output directory
ReverseStart ==
  /\ rev.pc = "start"
  /\ rev.kind = "dir"
  /\ png_files_of(rev.entries) # << >>
  /\ rev' = [rev EXCEPT !.pc = "loop",
                        !.png_files = png_files_of(rev.entries),
                        !.pad_width = pad_width_94(png_files_of(rev.entries)),
                        !.out = mkdir_out(rev.out),
                        !.idx = 0]
  /\ UNCHANGED << main_vars, render_vars, filter_vars, marker_vars >>
  /\ UNCHANGED << sq, calc, box, rot, curve, scl >>

\* main, lines 51-57: one iteration of the copy loop
ReverseCopy ==
  /\ rev.pc = "loop"
  /\ rev.idx < Len(rev.png_files)
  /\ LET i == next_idx(rev.idx)
         src_path == reversed(rev.png_files)[i]
     IN rev' = [rev EXCEPT !.idx = i,
                           !.out = put_file(rev.out,
                                            dst_name_94(i, rev.pad_width),
                                            rev.data[src_path.name])]
  /\ UNCHANGED << main_vars, render_vars, filter_vars, marker_vars >>
  /\ UNCHANGED << sq, calc, box, rot, curve, scl >>

\* main, line 59: the loop is over
ReverseFinish ==
  /\ rev.pc = "loop"
  /\ rev.idx = Len(rev.png_files)
  /\ rev' = [rev EXCEPT !.pc = "exit", !.exit = 0]
  /\ UNCHANGED << main_vars, render_vars, filter_vars, marker_vars >>
  /\ UNCHANGED << sq, calc, box, rot, curve, scl >>

\* the tool is run again, on the directory the first run created and wrote
ReverseAgain ==
  /\ rev.pc = "exit"
  /\ rev.exit = 0
  /\ rev.pass = 1
  /\ ~rev.out0.exists
  /\ rev' = [rev EXCEPT !.pc = "start", !.pass = 2,
                        !.entries = {File(nm) : nm \in DOMAIN rev.out.files},
                        !.data = rev.out.files,
                        !.out0 = NoOutput, !.out = NoOutput,
                        !.png_files = << >>, !.pad_width = 0, !.idx = 0,
                        !.exit = -1]
  /\ UNCHANGED << main_vars, render_vars, filter_vars, marker_vars >>
  /\ UNCHANGED << sq, calc, box, rot, curve, scl >>

ReverseNext ==
  \/ ReverseBadInput
  \/ ReverseNoPngs
  \/ ReverseStart
  \/ ReverseCopy
  \/ ReverseFinish
  \/ ReverseAgain

SpecReverse == ReverseInit /\ [][ReverseNext]_vars

\* ============================================== the centre-square cropper
\* 0-render-scripts/script95-crop.py

\* the largest width and height of an image given to crop_center_square
MaxSquareImage == 6
\* the largest PIXEL_LENGTH argument
MaxPixelLength == 7

\* crop_center_square: side = min(pixel_length, width, height)
side_of(pixel_length, width, height) ==
  IF pixel_length <= width /\ pixel_length <= height THEN pixel_length
  ELSE IF width <= height THEN width ELSE height

\* a crop anchored at the left (top) edge
crop_origin_at_edge(extent, side) == 0

\* crop_center_square: left = (width - side) // 2, top = (height - side) // 2
crop_origin(extent, side) == (extent - side) \div 2

\* crop_center_square: the box handed to img.crop
crop_center_square(width, height, pixel_length) ==
  LET side == side_of(pixel_length, width, height)
      left == crop_origin(width, side)
      top == crop_origin(height, side)
  IN [left |-> left, top |-> top, right |-> left + side,
      bottom |-> top + side]

NoBox == [left |-> 0, top |-> 0, right |-> 0, bottom |-> 0]

SquareInit ==
  /\ MainIdle
  /\ RenderIdle
  /\ FilterIdle
  /\ MarkerIdle
  /\ rev = Idle /\ calc = Idle /\ box = Idle /\ rot = Idle
  /\ curve = Idle /\ scl = Idle
  /\ \E w \in 1..MaxSquareImage, h \in 1..MaxSquareImage,
        p \in 0..MaxPixelLength :
       sq = [pc |-> "start", width |-> w, height |-> h, pixel_length |-> p,
             crop |-> NoBox]

\* main, lines 81-82: PIXEL_LENGTH is not positive
SquareRejected ==
  /\ sq.pc = "start"
  /\ sq.pixel_length <= 0
  /\ sq' = [sq EXCEPT !.pc = "raised"]
  /\ UNCHANGED << main_vars, render_vars, filter_vars, marker_vars >>
  /\ UNCHANGED << rev, calc, box, rot, curve, scl >>

\* process_folder, lines 44-45: one image is cropped
SquareCrop ==
  /\ sq.pc = "start"
  /\ sq.pixel_length > 0
  /\ sq' = [sq EXCEPT !.pc = "cropped",
                      !.crop = crop_center_square(sq.width, sq.height,
                                                  sq.pixel_length)]
  /\ UNCHANGED << main_vars, render_vars, filter_vars, marker_vars >>
  /\ UNCHANGED << rev, calc, box, rot, curve, scl >>

SquareNext == SquareRejected \/ SquareCrop

SpecSquare == SquareInit /\ [][SquareNext]_vars

\* ===================================== the crop calculator and box cropper
\* 0-render-scripts/script101-calculate-crop.py, script102-crop.py
\* An image is its size and the set of its pixels that are not pure black
\* once converted to RGB, as << x, y >> with << 0, 0 >> the top-left pixel.

\* the largest number of PNG files of a folder given to the two tools
MaxCropFrames == 2

\* NUM_FRAMES as the script sets it
NUM_FRAMES == 30

\* Python's None, where the other values are tuples
None == << >>

Image(w, h, lit) == [width |-> w, height |-> h, lit |-> lit]

\* images of one resolution, black or with pixels lit in the corners, on the
\* last column, on the last row and inside; and images of other resolutions
CropImages ==
  {Image(4, 3, s) : s \in SUBSET {<< 0, 0 >>, << 3, 2 >>, << 1, 1 >>}}
    \cup {Image(3, 3, {<< 1, 1 >>}), Image(4, 2, {<< 3, 1 >>}),
          Image(2, 2, {})}

\* the values NUM_FRAMES can be given: None, or a number as << n >>
NumFramesValues == {None, << -1 >>, << 0 >>, << 1 >>, << NUM_FRAMES >>}

\* sorted(f for f in os.listdir(...) if f.lower().endswith(".png")), for a
\* folder that holds PNG files only
listdir_sorted(data) ==
  LET s == sorted({File(nm) : nm \in DOMAIN data})
  IN [i \in 1..Len(s) |-> s[i].name]

\* the smallest and the largest element of a set of integers
min(S) == CHOOSE m \in S : \A x \in S : m <= x
max(S) == CHOOSE m \in S : \A x \in S : x <= m

\* the rows and the columns of an image that hold a pixel that is not black
lit_rows(im) ==
  {y \in 0..(im.height - 1) :
     \E x \in 0..(im.width - 1) : << x, y >> \in im.lit}
lit_cols(im) ==
  {x \in 0..(im.width - 1) :
     \E y \in 0..(im.height - 1) : << x, y >> \in im.lit}

\* a bounding box whose right and bottom are one past the last lit pixel
find_non_black_bbox_exclusive(im) ==
  IF lit_rows(im) = {} THEN None
  ELSE << min(lit_cols(im)), min(lit_rows(im)),
          max(lit_cols(im)) + 1, max(lit_rows(im)) + 1 >>

\* find_non_black_bbox: (left, top, right, bottom), the first and the last
\* column and row that hold a pixel that is not black; None for a black image
find_non_black_bbox(im) ==
  IF lit_rows(im) = {} THEN None
  ELSE << min(lit_cols(im)), min(lit_rows(im)),
          max(lit_cols(im)), max(lit_rows(im)) >>

\* main: files = all_files[:NUM_FRAMES] if NUM_FRAMES is a positive number
files_of(all_files, num_frames) ==
  IF num_frames # None /\ num_frames[1] > 0
  THEN SubSeq(all_files, 1, IF num_frames[1] < Len(all_files)
                            THEN num_frames[1] ELSE Len(all_files))
  ELSE all_files

\* main, lines 135-145: the global box after a frame's box
merge_bbox(g, b) ==
  IF g = None THEN b
  ELSE << min({g[1], b[1]}), min({g[2], b[2]}),
          max({g[3], b[3]}), max({g[4], b[4]}) >>

size_of(im) == << im.width, im.height >>

\* a comparison of the widths only
same_width(size, ref) == size[1] = ref[1]

\* main, line 123: (width, height) != (ref_width, ref_height), negated
same_resolution(size, ref) == size = ref

\* main, lines 150-155: the line of crop coordinates
crop_line(g) == IF g = None THEN << 0, 0, 0, 0 >> ELSE g

CropFolders ==
  UNION {[{PngName(k) : k \in 1..n} -> CropImages] : n \in 0..MaxCropFrames}

CalcInit ==
  /\ box = Idle
  /\ \E k \in {"missing", "dir"}, d \in CropFolders,
        nf \in NumFramesValues :
       calc = [pc |-> "start", kind |-> k,
               data |-> IF k = "dir" THEN d ELSE << >>,
               num_frames |-> nf, files |-> << >>, ref |-> << 0, 0 >>,
               idx |-> 0, global |-> None, printed |-> None, exit |-> -1]

\* main, lines 83-85: the argument is not a directory
CalcBadInput ==
  /\ calc.pc = "start"
  /\ calc.kind # "dir"
  /\ calc' = [calc EXCEPT !.pc = "exit", !.exit = 1]
  /\ UNCHANGED << main_vars, render_vars, filter_vars, marker_vars >>
  /\ UNCHANGED << rev, sq, box, rot, curve, scl >>

\* main, lines 88-95: no PNG file
CalcNoPngs ==
  /\ calc.pc = "start"
  /\ calc.kind = "dir"
  /\ listdir_sorted(calc.data) = << >>
  /\ calc' = [calc EXCEPT !.pc = "exit", !.exit = 1]
  /\ UNCHANGED << main_vars, render_vars, filter_vars, marker_vars >>
  /\ UNCHANGED << rev, sq, box, rot, curve, scl >>

\* main, lines 88-113: the files to process and the reference resolution
CalcStart ==
  /\ calc.pc = "start"
  /\ calc.kind = "dir"
  /\ listdir_sorted(calc.data) # << >>
  /\ LET files == files_of(listdir_sorted(calc.data), calc.num_frames)
     IN calc' = [calc EXCEPT !.pc = "loop", !.files = files,
                             !.ref = size_of(calc.data[files[1]]),
                             !.idx = 0, !.global = None]
  /\ UNCHANGED << main_vars, render_vars, filter_vars, marker_vars >>
  /\ UNCHANGED << rev, sq, box, rot, curve, scl >>

\* main, lines 115-126: a frame of another resolution ends the run
CalcMismatch ==
  /\ calc.pc = "loop"
  /\ calc.idx < Len(calc.files)
  /\ ~same_resolution(size_of(calc.data[calc.files[calc.idx + 1]]), calc.ref)
  /\ calc' = [calc EXCEPT !.pc = "exit", !.exit = 1]
  /\ UNCHANGED << main_vars, render_vars, filter_vars, marker_vars >>
  /\ UNCHANGED << rev, sq, box, rot, curve, scl >>

\* main, lines 115-145: one frame of the reference resolution
CalcFrame ==
  /\ calc.pc = "loop"
  /\ calc.idx < Len(calc.files)
  /\ LET im == calc.data[calc.files[calc.idx + 1]]
         bbox == find_non_black_bbox(im)
     IN /\ same_resolution(size_of(im), calc.ref)
        /\ calc' = [calc EXCEPT !.idx = calc.idx + 1,
                                !.global = IF bbox = None THEN calc.global
                                           ELSE merge_bbox(calc.global, bbox)]
  /\ UNCHANGED << main_vars, render_vars, filter_vars, marker_vars >>
  /\ UNCHANGED << rev, sq, box, rot, curve, scl >>

\* main, lines 147-155: the crop coordinates are printed
CalcPrint ==
  /\ calc.pc = "loop"
  /\ calc.idx = Len(calc.files)
  /\ calc' = [calc EXCEPT !.pc = "exit", !.printed = crop_line(calc.global),
                          !.exit = 0]
  /\ UNCHANGED << main_vars, render_vars, filter_vars, marker_vars >>
  /\ UNCHANGED << rev, sq, box, rot, curve, scl >>

\* ------------------------------------------------------- the box cropper
\* im.crop((left, top, right, bottom)): the pixels with left <= x < right
\* and top <= y < bottom, moved to the origin; what the box covers beyond the
\* image is filled with black
crop(im, b) ==
  Image(b[3] - b[1], b[4] - b[2],
        {<< p[1] - b[1], p[2] - b[2] >> :
           p \in {q \in im.lit : /\ b[1] <= q[1] /\ q[1] < b[3]
                                  /\ b[2] <= q[2] /\ q[2] < b[4]}})

\* main, line 59: the crop box against the size of the first image
box_in_bounds(b, w, h) ==
  /\ 0 <= b[1] /\ b[1] < b[3] /\ b[3] <= w
  /\ 0 <= b[2] /\ b[2] < b[4] /\ b[4] <= h

\* command-line arguments that int() rejects
NotIntegers == << >>

BoxArgs ==
  {<< l, t, r, b >> : l \in {-1, 0, 1}, t \in {0, 1}, r \in {1, 3, 4, 5},
                      b \in {1, 2, 3, 4}} \cup {NotIntegers}

BoxImages ==
  {Image(4, 3, {<< 0, 0 >>, << 3, 2 >>}), Image(3, 3, {<< 1, 1 >>}),
   Image(4, 2, {<< 3, 1 >>})}

BoxFolders ==
  UNION {[{PngName(k) : k \in 1..n} -> BoxImages] : n \in 0..MaxCropFrames}

\* the box cropper before it runs; box.i counts the frames cropped
box_start(k, d, a, o) ==
  [pc |-> "start", kind |-> k, data |-> d, args |-> a, files |-> << >>,
   i |-> 0, out0 |-> o, out |-> o, exit |-> -1]

BoxInit ==
  /\ calc = Idle
  /\ \E k \in {"missing", "dir"}, d \in BoxFolders, a \in BoxArgs,
        o \in ReverseOutputs :
       box = box_start(k, IF k = "dir" THEN d ELSE << >>, a, o)

CropInit ==
  /\ MainIdle
  /\ RenderIdle
  /\ FilterIdle
  /\ MarkerIdle
  /\ rev = Idle /\ sq = Idle /\ rot = Idle /\ curve = Idle /\ scl = Idle
  /\ (CalcInit \/ BoxInit)

\* the cropper is given the folder and the four numbers the calculator
\* printed for it
BoxFromCalc ==
  /\ calc.pc = "exit"
  /\ calc.printed # None
  /\ box = Idle
  /\ box' = box_start("dir", calc.data, calc.printed, NoOutput)
  /\ UNCHANGED << main_vars, render_vars, filter_vars, marker_vars >>
  /\ UNCHANGED << rev, sq, calc, rot, curve, scl >>

\* main, lines 15-22: an argument is not an integer
BoxBadArgs ==
  /\ box.pc = "start"
  /\ box.args = NotIntegers
  /\ box' = [box EXCEPT !.pc = "exit", !.exit = 1]
  /\ UNCHANGED << main_vars, render_vars, filter_vars, marker_vars >>
  /\ UNCHANGED << rev, sq, calc, rot, curve, scl >>

\* main, lines 25-28: the input folder is not a directory
BoxBadInput ==
  /\ box.pc = "start"
  /\ box.args # NotIntegers
  /\ box.kind # "dir"
  /\ box' = [box EXCEPT !.pc = "exit", !.exit = 1]
  /\ UNCHANGED << main_vars, render_vars, filter_vars, marker_vars >>
  /\ UNCHANGED << rev, sq, calc, rot, curve, scl >>

\* main, lines 31-38: no PNG file
BoxNoPngs ==
  /\ box.pc = "start"
  /\ box.args # NotIntegers
  /\ box.kind = "dir"
  /\ listdir_sorted(box.data) = << >>
  /\ box' = [box EXCEPT !.pc = "exit", !.exit = 1]
  /\ UNCHANGED << main_vars, render_vars, filter_vars, marker_vars >>
  /\ UNCHANGED << rev, sq, calc, rot, curve, scl >>

\* main, lines 43-62: the output folder is made, then the box is found out
\* of bounds for the first image
BoxOutOfBounds ==
  /\ box.pc = "start"
  /\ box.args # NotIntegers
  /\ box.kind = "dir"
  /\ listdir_sorted(box.data) # << >>
  /\ LET first_img == box.data[listdir_sorted(box.data)[1]]
     IN ~box_in_bounds(box.args, first_img.width, first_img.height)
  /\ box' = [box EXCEPT !.pc = "exit", !.exit = 1,
                        !.files = listdir_sorted(box.data),
                        !.out = mkdir_out(box.out)]
  /\ UNCHANGED << main_vars, render_vars, filter_vars, marker_vars >>
  /\ UNCHANGED << rev, sq, calc, rot, curve, scl >>

\* main, lines 43-62: the output folder is made and the box is in bounds for
\* the first image
BoxStart ==
  /\ box.pc = "start"
  /\ box.args # NotIntegers
  /\ box.kind = "dir"
  /\ listdir_sorted(box.data) # << >>
  /\ LET first_img == box.data[listdir_sorted(box.data)[1]]
     IN box_in_bounds(box.args, first_img.width, first_img.height)
  /\ box' = [box EXCEPT !.pc = "loop", !.i = 0,
                        !.files = listdir_sorted(box.data),
                        !.out = mkdir_out(box.out)]
  /\ UNCHANGED << main_vars, render_vars, filter_vars, marker_vars >>
  /\ UNCHANGED << rev, sq, calc, rot, curve, scl >>

\* main, lines 64-74: one frame is cropped and saved
BoxCrop ==
  /\ box.pc = "loop"
  /\ box.i < Len(box.files)
  /\ LET filename == box.files[box.i + 1]
     IN box' = [box EXCEPT !.i = box.i + 1,
                           !.out = put_file(box.out, filename,
                                            crop(box.data[filename],
                                                 box.args))]
  /\ UNCHANGED << main_vars, render_vars, filter_vars, marker_vars >>
  /\ UNCHANGED << rev, sq, calc, rot, curve, scl >>

\* main, lines 76-78: the loop is over
BoxFinish ==
  /\ box.pc = "loop"
  /\ box.i = Len(box.files)
  /\ box' = [box EXCEPT !.pc = "exit", !.exit = 0]
  /\ UNCHANGED << main_vars, render_vars, filter_vars, marker_vars >>
  /\ UNCHANGED << rev, sq, calc, rot, curve, scl >>

CropNext ==
  \/ CalcBadInput
  \/ CalcNoPngs
  \/ CalcStart
  \/ CalcMismatch
  \/ CalcFrame
  \/ CalcPrint
  \/ BoxFromCalc
  \/ BoxBadArgs
  \/ BoxBadInput
  \/ BoxNoPngs
  \/ BoxOutOfBounds
  \/ BoxStart
  \/ BoxCrop
  \/ BoxFinish

SpecCrop == CropInit /\ [][CropNext]_vars

\* ===================================================== the frame rotator
\* 0-render-scripts/script104-rotate-frames.py
\* Degrees are counted in tenths of a degree, so that the float of every
\* token of the model is an integer.

\* the largest number of lines of a rotation file
MaxRotationLines == 2
\* the largest number of PNG files of a folder given to the rotator
MaxRotationFrames == 3

\* the position of the first space of s, Len(s) + 1 if it has none
first_space(s) ==
  IF \E i \in 1..Len(s) : s[i] = " "
  THEN CHOOSE i \in 1..Len(s) : s[i] = " " /\ \A j \in 1..(i - 1) : s[j] # " "
  ELSE Len(s) + 1

\* line.split(): the maximal runs of characters that are not spaces
RECURSIVE split(_)
split(s) ==
  LET t == LStrip(s)
  IN IF t = << >> THEN << >>
     ELSE << SubSeq(t, 1, first_space(t) - 1) >>
            \o split(SubSeq(t, first_space(t) + 1, Len(t)))

\* the value of a string of digits
RECURSIVE digits_value(_)
digits_value(s) ==
  IF s = << >> THEN 0
  ELSE 10 * digits_value(SubSeq(s, 1, Len(s) - 1)) + DigitValue(s[Len(s)])

unsigned(tok) == IF tok # << >> /\ Head(tok) = "-" THEN Tail(tok) ELSE tok
sign(tok) == IF tok # << >> /\ Head(tok) = "-" THEN -1 ELSE 1

\* whether int(tok) returns: an optional sign and digits
is_int(tok) == isdigit(unsigned(tok))

\* int(tok)
int(tok) == sign(tok) * digits_value(unsigned(tok))

\* whether float(tok) returns: an optional sign, then digits with at most one
\* point among them
is_float(tok) ==
  LET u == unsigned(tok)
      points == {i \in 1..Len(u) : u[i] = "."}
  IN /\ Cardinality(points) <= 1
     /\ \E i \in 1..Len(u) : IsDigit(u[i])
     /\ \A i \in 1..Len(u) : IsDigit(u[i]) \/ u[i] = "."

\* float(tok) in tenths, for a token with at most one digit after the point
float_tenths(tok) ==
  LET u == unsigned(tok)
      p == IF \E i \in 1..Len(u) : u[i] = "."
           THEN CHOOSE i \in 1..Len(u) : u[i] = "." ELSE Len(u) + 1
      whole == SubSeq(u, 1, p - 1)
      frac == SubSeq(u, p + 1, Len(u))
  IN sign(tok) * (10 * digits_value(whole)
                  + (IF frac = << >> THEN 0 ELSE DigitValue(frac[1])))

\* a mapping that keeps the degrees it already has for a frame number
mapping_keep_first(mapping, frame_num, degrees) ==
  IF frame_num \in DOMAIN mapping THEN mapping
  ELSE [k \in (DOMAIN mapping) \cup {frame_num} |->
          IF k = frame_num THEN degrees ELSE mapping[k]]

\* parse_rotation_file, line 28: mapping[frame_num] = degrees
mapping_put(mapping, frame_num, degrees) ==
  [k \in (DOMAIN mapping) \cup {frame_num} |->
     IF k = frame_num THEN degrees ELSE mapping[k]]

\* parse_rotation_file: the mapping after the lines, taken in order
RECURSIVE parse_lines(_, _)
parse_lines(mapping, lines) ==
  IF lines = << >> THEN mapping
  ELSE LET parts == split(Strip(Head(lines)))
       IN IF Len(parts) < 2 \/ ~is_int(parts[1]) \/ ~is_float(parts[2])
          THEN parse_lines(mapping, Tail(lines))
          ELSE parse_lines(mapping_put(mapping, int(parts[1]),
                                       float_tenths(parts[2])),
                           Tail(lines))

NoMapping == [k \in {} |-> 0]

parse_rotation_file(lines) == parse_lines(NoMapping, lines)

\* main, lines 91-96: the degrees of a frame
degrees_of(frame_to_degrees, frame_number) ==
  IF frame_number \in DOMAIN frame_to_degrees
  THEN frame_to_degrees[frame_number] ELSE 0

\* main, lines 101-104: img.rotate(degrees, ...) or img.copy()
rotated_image(name, degrees) ==
  IF degrees # 0 THEN [kind |-> "rotated", of |-> name, by |-> degrees]
  ELSE [kind |-> "copy", of |-> name]

\* the lines a rotation file is made of
RotationLineSet ==
  { << "1", " ", "9", "0" >>,
    << "2", " ", "-", "9", "0" >>,
    << " ", "2", " ", " ", "4", "5", " " >>,
    << "0", "2", " ", "2", ".", "5", " ", "x" >>,
    << "3", " ", "0", ".", "0" >>,
    << "1", " ", "0" >>,
    << "x", " ", "1", "0" >>,
    << "2", " ", "a" >>,
    << "1", ".", "5", " ", "9", "0" >>,
    << "2" >>,
    << " ", " " >>,
    << >> }

RotationFiles ==
  UNION {[1..n -> RotationLineSet] : n \in 0..MaxRotationLines}

RotateInit ==
  /\ MainIdle
  /\ RenderIdle
  /\ FilterIdle
  /\ MarkerIdle
  /\ rev = Idle /\ sq = Idle /\ calc = Idle /\ box = Idle
  /\ curve = Idle /\ scl = Idle
  /\ \E fk \in {"missing", "file"}, k \in {"missing", "dir"},
        lines \in RotationFiles, n \in 0..MaxRotationFrames,
        o \in ReverseOutputs :
       /\ fk = "missing" => lines = << >>
       /\ k = "missing" => n = 0
       /\ fk = "missing" => (n = 0 /\ o = NoOutput)
       /\ rot = [pc |-> "start", file_kind |-> fk, lines |-> lines,
                 kind |-> k, names |-> {PngName(j) : j \in 1..n},
                 frame_to_degrees |-> NoMapping, png_files |-> << >>,
                 idx |-> 0, out0 |-> o, out |-> o, exit |-> -1]

\* main, lines 45-47: no rotation file
RotateNoFile ==
  /\ rot.pc = "start"
  /\ rot.file_kind # "file"
  /\ rot' = [rot EXCEPT !.pc = "exit", !.exit = 1]
  /\ UNCHANGED << main_vars, render_vars, filter_vars, marker_vars >>
  /\ UNCHANGED << rev, sq, calc, box, curve, scl >>

\* main, lines 49-51: the input folder is not a directory
RotateBadInput ==
  /\ rot.pc = "start"
  /\ rot.file_kind = "file"
  /\ rot.kind # "dir"
  /\ rot' = [rot EXCEPT !.pc = "exit", !.exit = 1]
  /\ UNCHANGED << main_vars, render_vars, filter_vars, marker_vars >>
  /\ UNCHANGED << rev, sq, calc, box, curve, scl >>

\* main, lines 56-70: the mapping is parsed, then no PNG file is found
RotateNoPngs ==
  /\ rot.pc = "start"
  /\ rot.file_kind = "file"
  /\ rot.kind = "dir"
  /\ rot.names = {}
  /\ rot' = [rot EXCEPT !.pc = "exit", !.exit = 1,
                        !.frame_to_degrees = parse_rotation_file(rot.lines)]
  /\ UNCHANGED << main_vars, render_vars, filter_vars, marker_vars >>
  /\ UNCHANGED << rev, sq, calc, box, curve, scl >>

\* main, lines 56-79: the mapping, the listing and the output folder
RotateStart ==
  /\ rot.pc = "start"
  /\ rot.file_kind = "file"
  /\ rot.kind = "dir"
  /\ rot.names # {}
  /\ rot' = [rot EXCEPT !.pc = "loop", !.idx = 0,
                        !.frame_to_degrees = parse_rotation_file(rot.lines),
                        !.png_files =
                           listdir_sorted([nm \in rot.names |-> nm]),
                        !.out = mkdir_out(rot.out)]
  /\ UNCHANGED << main_vars, render_vars, filter_vars, marker_vars >>
  /\ UNCHANGED << rev, sq, calc, box, curve, scl >>

\* main, lines 85-108: one frame is rotated, or copied, and saved
RotateFrame ==
  /\ rot.pc = "loop"
  /\ rot.idx < Len(rot.png_files)
  /\ LET frame_number == next_idx(rot.idx)
         filename == rot.png_files[frame_number]
         degrees == degrees_of(rot.frame_to_degrees, frame_number)
     IN rot' = [rot EXCEPT !.idx = frame_number,
                           !.out = put_file(rot.out, filename,
                                            rotated_image(filename, degrees))]
  /\ UNCHANGED << main_vars, render_vars, filter_vars, marker_vars >>
  /\ UNCHANGED << rev, sq, calc, box, curve, scl >>

\* main, line 110: the loop is over
RotateFinish ==
  /\ rot.pc = "loop"
  /\ rot.idx = Len(rot.png_files)
  /\ rot' = [rot EXCEPT !.pc = "exit", !.exit = 0]
  /\ UNCHANGED << main_vars, render_vars, filter_vars, marker_vars >>
  /\ UNCHANGED << rev, sq, calc, box, curve, scl >>

RotateNext ==
  \/ RotateNoFile
  \/ RotateBadInput
  \/ RotateNoPngs
  \/ RotateStart
  \/ RotateFrame
  \/ RotateFinish

SpecRotate == RotateInit /\ [][RotateNext]_vars

\* ============================================ the rotation-curve printer
\* 0-render-scripts/script100-PRINT-FRAME-ROTATE.py
\* The vortex strength of a frame is an integer; SCALE = 67.23 is the
\* fraction SCALE_NUM / SCALE_DEN, and the running sum and the printed
\* values are counted in units of 1 / SCALE_DEN.

\* the last frame the scene of the model can have
MaxCurveFrame == 3

SCALE_NUM == 6723
SCALE_DEN == 100
START_FRAME == 2
LAST_FRAME == 163

\* the values START_FRAME and LAST_FRAME can be given
StartFrames == {-1, 0, 1, START_FRAME, 3}
LastFrames == 0..MaxCurveFrame \cup {LAST_FRAME}

\* the vortex strength at each frame of the scene's animation
Strengths == [1..MaxCurveFrame -> {-1, 0, 2}]

\* lines 41-42: START_FRAME raised to 1
start_frame_of(start) == IF start < 1 THEN 1 ELSE start

\* line 45: frame_end = min(LAST_FRAME, scene.frame_end)
frame_end_of(last, scene_end) == IF last <= scene_end THEN last ELSE scene_end

\* a sum that holds the last frame's term only
accumulate_last_only(running_sum, val) == val * SCALE_NUM

\* line 51: running_sum += (val * SCALE)
accumulate(running_sum, val) == running_sum + val * SCALE_NUM

\* line 53: total_rotation_deg = -running_sum
total_rotation_deg(running_sum) == -running_sum

CurveInit ==
  /\ MainIdle
  /\ RenderIdle
  /\ FilterIdle
  /\ MarkerIdle
  /\ rev = Idle /\ sq = Idle /\ calc = Idle /\ box = Idle
  /\ rot = Idle /\ scl = Idle
  /\ \E v \in BOOLEAN, s \in StartFrames, l \in LastFrames,
        e \in 0..MaxCurveFrame, st \in Strengths :
       curve = [pc |-> "start", vortex |-> v, start |-> s, last |-> l,
                scene_end |-> e, strength |-> st, start_frame |-> 0,
                frame_end |-> 0, f |-> 0, running_sum |-> 0,
                lines |-> << >>]

\* lines 34-36: no object with a vortex force field
CurveNoVortex ==
  /\ curve.pc = "start"
  /\ ~curve.vortex
  /\ curve' = [curve EXCEPT !.pc = "raised"]
  /\ UNCHANGED << main_vars, render_vars, filter_vars, marker_vars >>
  /\ UNCHANGED << rev, sq, calc, box, rot, scl >>

\* lines 41-47: the range of frames and the empty sum
CurveStart ==
  /\ curve.pc = "start"
  /\ curve.vortex
  /\ curve' = [curve EXCEPT !.pc = "loop",
                            !.start_frame = start_frame_of(curve.start),
                            !.frame_end = frame_end_of(curve.last,
                                                       curve.scene_end),
                            !.f = start_frame_of(curve.start),
                            !.running_sum = 0]
  /\ UNCHANGED << main_vars, render_vars, filter_vars, marker_vars >>
  /\ UNCHANGED << rev, sq, calc, box, rot, scl >>

\* lines 49-55: one frame is evaluated, added and printed
CurveFrame ==
  /\ curve.pc = "loop"
  /\ curve.f <= curve.frame_end
  /\ LET val == curve.strength[curve.f]
         s == accumulate(curve.running_sum, val)
     IN curve' = [curve EXCEPT !.running_sum = s,
                               !.lines = Append(curve.lines,
                                                << curve.f,
                                                   total_rotation_deg(s) >>),
                               !.f = curve.f + 1]
  /\ UNCHANGED << main_vars, render_vars, filter_vars, marker_vars >>
  /\ UNCHANGED << rev, sq, calc, box, rot, scl >>

\* line 49: the range is exhausted
CurveFinish ==
  /\ curve.pc = "loop"
  /\ curve.f > curve.frame_end
  /\ curve' = [curve EXCEPT !.pc = "done"]
  /\ UNCHANGED << main_vars, render_vars, filter_vars, marker_vars >>
  /\ UNCHANGED << rev, sq, calc, box, rot, scl >>

CurveNext == CurveNoVortex \/ CurveStart \/ CurveFrame \/ CurveFinish

SpecCurve == CurveInit /\ [][CurveNext]_vars

\* ====================================================== the value scaler
\* 0-render-scripts/script103-scale-rotation-frame-values.py
\* A second value is counted in tenths, as float_tenths gives it; a value
\* written with {:.6f} is counted in millionths.

\* the largest number of lines of an input file
MaxScaleLines == 3

\* the value the smallest second value is scaled to
TARGET == -104

MILLION == 1000000

\* "{:.6f}" of num / den, in millionths: rounded to the nearest millionth,
\* the whole part and the fraction taken one after the other
format_6f(num, den) ==
  LET n == IF (num < 0) = (den < 0) THEN 1 ELSE -1
      a == IF num < 0 THEN -num ELSE num
      d == IF den < 0 THEN -den ELSE den
  IN n * ((a \div d) * MILLION + round((a % d) * MILLION, d))

\* main, lines 27-34 and 61-72: the lines with at least two fields and a
\* numeric second field
valid_lines(lines) ==
  {i \in 1..Len(lines) :
     /\ Len(split(Strip(lines[i]))) >= 2
     /\ is_float(split(Strip(lines[i]))[2])}

\* main, lines 26-34: values, as the set of its elements
values_of(lines) ==
  {float_tenths(split(Strip(lines[i]))[2]) : i \in valid_lines(lines)}

\* a scale factor of 104 / min_val
new_second_unsigned(second, min_val) == format_6f(104 * second, min_val)

\* main, lines 48 and 69-70: second * SCALE with SCALE = -104 / min_val
new_second(second, min_val) == format_6f(TARGET * second, min_val)

\* the subsequence of s at the positions of the set I, in order
RECURSIVE select(_, _)
select(s, I) ==
  IF I = {} THEN << >>
  ELSE select(s, I \ {max(I)}) \o << s[max(I)] >>

\* main, lines 60-72: the lines written to the output file
scaled_lines(lines, min_val) ==
  LET kept == select(lines, valid_lines(lines))
  IN [j \in 1..Len(kept) |->
        [first |-> split(Strip(kept[j]))[1],
         second |-> new_second(float_tenths(split(Strip(kept[j]))[2]),
                               min_val)]]

\* the lines an input file is made of
ScaleLineSet ==
  { << "1", " ", "-", "2" >>,
    << "2", " ", "-", "4" >>,
    << "x", " ", "3", " ", "y" >>,
    << " ", "4", " ", " ", "0", ".", "0" >>,
    << "5", " ", "1", ".", "5" >>,
    << "6", " ", "-", "0", ".", "7" >>,
    << "7" >>,
    << "8", " ", "a" >>,
    << >> }

ScaleFiles == UNION {[1..n -> ScaleLineSet] : n \in 0..MaxScaleLines}

\* the output file before it is written
NoFile == [exists |-> FALSE, lines |-> << >>]

ScaleInit ==
  /\ MainIdle
  /\ RenderIdle
  /\ FilterIdle
  /\ MarkerIdle
  /\ rev = Idle /\ sq = Idle /\ calc = Idle /\ box = Idle
  /\ rot = Idle /\ curve = Idle
  /\ \E k \in {"missing", "file"}, lines \in ScaleFiles :
       /\ k = "missing" => lines = << >>
       /\ scl = [pc |-> "start", kind |-> k, lines |-> lines,
                 min_val |-> 0, out |-> NoFile, exit |-> -1]

\* main, lines 16-18: no input file
ScaleNoFile ==
  /\ scl.pc = "start"
  /\ scl.kind # "file"
  /\ scl' = [scl EXCEPT !.pc = "exit", !.exit = 1]
  /\ UNCHANGED << main_vars, render_vars, filter_vars, marker_vars >>
  /\ UNCHANGED << rev, sq, calc, box, rot, curve >>

\* main, lines 23-38: no line with a numeric second value
ScaleNoValues ==
  /\ scl.pc = "start"
  /\ scl.kind = "file"
  /\ values_of(scl.lines) = {}
  /\ scl' = [scl EXCEPT !.pc = "exit", !.exit = 1]
  /\ UNCHANGED << main_vars, render_vars, filter_vars, marker_vars >>
  /\ UNCHANGED << rev, sq, calc, box, rot, curve >>

\* main, lines 23-46: the smallest value is zero
ScaleZeroMin ==
  /\ scl.pc = "start"
  /\ scl.kind = "file"
  /\ values_of(scl.lines) # {}
  /\ min(values_of(scl.lines)) = 0
  /\ scl' = [scl EXCEPT !.pc = "exit", !.exit = 1]
  /\ UNCHANGED << main_vars, render_vars, filter_vars, marker_vars >>
  /\ UNCHANGED << rev, sq, calc, box, rot, curve >>

\* main, lines 23-74: SCALE is computed and the scaled file is written
ScaleWrite ==
  /\ scl.pc = "start"
  /\ scl.kind = "file"
  /\ values_of(scl.lines) # {}
  /\ min(values_of(scl.lines)) # 0
  /\ LET min_val == min(values_of(scl.lines))
     IN scl' = [scl EXCEPT !.pc = "exit", !.exit = 0, !.min_val = min_val,
                           !.out = [exists |-> TRUE,
                                    lines |-> scaled_lines(scl.lines,
                                                           min_val)]]
  /\ UNCHANGED << main_vars, render_vars, filter_vars, marker_vars >>
  /\ UNCHANGED << rev, sq, calc, box, rot, curve >>

ScaleNext == ScaleNoFile \/ ScaleNoValues \/ ScaleZeroMin \/ ScaleWrite

SpecScale == ScaleInit /\ [][ScaleNext]_vars

\* ================================================================ claims
\* the frames the loop has attempted so far, in order: each printed either
\* its [idx/total] line or its [error] line
Attempts == SelectSeq(log, LAMBDA m : m.kind \in {"ok", "failed"})

OkNames == {Attempts[j].name : j \in {k \in 1..Len(Attempts) : Attempts[k].kind = "ok"}}

\* C1: a failure while opening, rendering or saving frame i is caught at that
\* frame: the run never aborts, every frame is attempted in turn whatever
\* failed before it, and a frame that succeeds after a failure prints and
\* renders the 1-based index of its position and the full total.
C1_FrameFailureIsolated ==
  /\ pc # "crashed"
  /\ (pc \in {"loop", "exit"} /\ pngs # << >>) =>
       /\ Len(Attempts) = idx - 1
       /\ \A j \in 1..Len(Attempts) :
            /\ Attempts[j].name = pngs[j].name
            /\ Attempts[j].kind = "ok" =>
                 /\ Attempts[j].idx = j
                 /\ Attempts[j].total = Len(pngs)
                 /\ pngs[j].name \in DOMAIN out.files
                 /\ out.files[pngs[j].name].kind = "overlay"
                 /\ out.files[pngs[j].name].src = pngs[j].name
                 /\ j = Len(Attempts) =>
                      out.files[pngs[j].name] = overlay_file(pngs[j], j)
       /\ pc = "exit" => (Len(Attempts) = Len(pngs) /\ exit_code = 0)

\* C1 witness: a finished run in which a frame failed and a later one succeeded
C1_Witness ==
  /\ pc = "exit"
  /\ \E j \in 1..Len(Attempts) : \E k \in (j + 1)..Len(Attempts) :
       Attempts[j].kind = "failed" /\ Attempts[k].kind = "ok"

\* C2: after a run on a directory D with at least one PNG, the output
\* directory is the sibling <parent of D>/<name of D>-overlay and holds exactly
\* one file per input PNG processed without error, under the input's name, and
\* no file for an input that failed.
C2_OutputDirExact ==
  (pc = "exit" /\ pngs # << >>) =>
    /\ out.exists
    /\ path_parent(resolve(Cwd, out_dir)) = path_parent(resolve(Cwd, in_dir))
    /\ path_name(resolve(Cwd, out_dir))
         = path_name(resolve(Cwd, in_dir)) \o OVERLAY_SUFFIX
    /\ DOMAIN out.files = OkNames

\* ------------------------------------------------- reading rendered text
\* the number of decimal digits of n >= 0
RECURSIVE DigitCount(_)
DigitCount(n) == IF n < 10 THEN 1 ELSE 1 + DigitCount(n \div 10)

AllDigits(s) == s # << >> /\ \A i \in 1..Len(s) : IsDigit(s[i])

\* the number a digit string denotes
RECURSIVE NumVal(_)
NumVal(s) ==
  IF s = << >> THEN 0
  ELSE 10 * NumVal(SubSeq(s, 1, Len(s) - 1)) + DigitValue(s[Len(s)])

\* the digits a text starts with
RECURSIVE LeadingDigits(_)
LeadingDigits(s) ==
  IF s = << >> \/ ~IsDigit(Head(s)) THEN << >>
  ELSE << Head(s) >> \o LeadingDigits(Tail(s))

Drop(s, n) == SubSeq(s, n + 1, Len(s))

StartsWith(s, p) == Len(s) >= Len(p) /\ SubSeq(s, 1, Len(p)) = p

\* the "Frame `/^" line of a frame, as rendered in corner c
FrameLine(c) == r_lines[c][2].text

FRAME_PREFIX == << "F", "r", "a", "m", "e", " " >>

\* the index field and the total field of a rendered "Frame `/^" line
FrameIndexField(c) == LeadingDigits(Drop(FrameLine(c), Len(FRAME_PREFIX)))

FrameTotalField(c) ==
  Drop(FrameLine(c), Len(FRAME_PREFIX) + Len(FrameIndexField(c)) + 1)

\* C3: for every frame of a sequence of N PNGs the frame-index token is
\* replaced by the 1-based index zero-padded to exactly digit_count(N)
\* characters and the total token by N unpadded; frame 7 of 120 renders 007.
C3_FrameTokenPadded ==
  r_pc # "input" =>
    \A c \in Corners :
      /\ StartsWith(FrameLine(c), FRAME_PREFIX)
      /\ Len(FrameLine(c))
           = Len(FRAME_PREFIX) + 2 * DigitCount(r_in.total) + 1
      /\ Len(FrameIndexField(c)) = DigitCount(r_in.total)
      /\ NumVal(FrameIndexField(c)) = r_in.idx
      /\ FrameLine(c)[Len(FRAME_PREFIX) + DigitCount(r_in.total) + 1] = "/"
      /\ AllDigits(FrameTotalField(c))
      /\ Len(FrameTotalField(c)) = DigitCount(r_in.total)
      /\ NumVal(FrameTotalField(c)) = r_in.total
      /\ Head(FrameTotalField(c)) # "0"
      /\ (r_in.idx = 7 /\ r_in.total = 120) =>
           FrameIndexField(c) = << "0", "0", "7" >>

\* C3 witness: frame 7 of 120 has been rendered as "Frame 007/120"
C3_Witness ==
  /\ r_pc = "lines"
  /\ r_in.idx = 7
  /\ r_in.total = 120
  /\ r_lines.tr[2].text
       = FRAME_PREFIX \o << "0", "0", "7", "/", "1", "2", "0" >>

\* the TIME line of a frame, as rendered in corner c, after the fixed prefix
TimeFields(c) == Drop(r_lines[c][1].text, Len(TIME_LABEL_PREFIX))

DAYS_UNIT == << " ", "d", "d", " " >>
HOURS_UNIT == << " ", "h", "r" >>

DaysField(fields) == LeadingDigits(fields)

HoursField(fields) ==
  LeadingDigits(Drop(fields, Len(DaysField(fields)) + Len(DAYS_UNIT)))

\* a text is <days> dd <hours> hr
WellFormedTime(fields) ==
  /\ DaysField(fields) # << >>
  /\ HoursField(fields) # << >>
  /\ fields = DaysField(fields) \o DAYS_UNIT \o HoursField(fields) \o HOURS_UNIT

\* e is (i - 1) * HOURS_PER_FRAME rounded to the nearest integer, a tie
\* going to the even one
IsRoundedElapsed(e, i) ==
  LET twice == 2 * (HOURS_DEN * e - HOURS_NUM * (i - 1))
  IN /\ twice >= -HOURS_DEN
     /\ twice <= HOURS_DEN
     /\ (twice = HOURS_DEN \/ twice = -HOURS_DEN) => e % 2 = 0

\* C4: for every frame index i >= 1 the time label shows days = E div 24 and
\* hours = E mod 24 for E = round((i - 1) * HOURS_PER_FRAME): 24 * days +
\* hours = E and 0 <= hours < 24; frame 1 shows 0 days 00 hours and frame 100
\* has E = 97, 4 days 1 hour.
C4_TimeLabelDaysHours ==
  r_pc # "input" =>
    \A c \in Corners :
      LET f == TimeFields(c)
          days == NumVal(DaysField(f))
          hours == NumVal(HoursField(f))
      IN /\ StartsWith(r_lines[c][1].text, TIME_LABEL_PREFIX)
         /\ WellFormedTime(f)
         /\ IsRoundedElapsed(24 * days + hours, r_in.idx)
         /\ hours >= 0
         /\ hours < 24
         /\ r_in.idx = 1 => (days = 0 /\ HoursField(f) = << "0", "0" >>)
         /\ r_in.idx = 100 => (days = 4 /\ hours = 1)

\* C4 witness: frame 100 has been rendered as 4 days 01 hour
C4_Witness ==
  /\ r_pc = "lines"
  /\ r_in.idx = 100
  /\ r_in.total = 100
  /\ TimeFields("tr") = << "4" >> \o DAYS_UNIT \o << "0", "1" >> \o HOURS_UNIT

\* the last frame's elapsed hours: floor or floor + 1 of its exact value
LastElapsed ==
  LET q == (HOURS_NUM * (r_in.total - 1)) \div HOURS_DEN
  IN CHOOSE e \in {q, q + 1} : IsRoundedElapsed(e, r_in.total)

\* the fields of the last frame's time label under the widths in use
LastTimeFields ==
  Drop(build_time_label(r_in.total, r_pads.days, r_pads.hours),
       Len(TIME_LABEL_PREFIX))

\* every frame's days and hours fields are as wide as the last frame's
SameWidthsAsLastFrame ==
  LET last == LastTimeFields
      last_days == Len(DaysField(last))
      last_hours == Len(HoursField(last))
  IN /\ WellFormedTime(last)
     /\ NumVal(DaysField(last)) = LastElapsed \div 24
     /\ NumVal(HoursField(last)) = LastElapsed % 24
     /\ \A c \in Corners :
          /\ WellFormedTime(TimeFields(c))
          /\ Len(DaysField(TimeFields(c))) = last_days
          /\ Len(HoursField(TimeFields(c))) = last_hours

\* C5 as stated: the days and the hours field widths are both computed from
\* the last frame's elapsed time, and every frame's fields are as wide as the
\* last frame's.
C5_WidthsFromLastFrame ==
  r_pc # "input" =>
    /\ r_pads.days = DigitCount(LastElapsed \div 24)
    /\ r_pads.hours = DigitCount(LastElapsed % 24)
    /\ SameWidthsAsLastFrame

\* C5: the days field width is computed once from the last frame's elapsed
\* time; the hours field width is the fixed 2 whatever the last frame's hours
\* are; and every frame's days and hours fields are as wide as the last
\* frame's.
C5_DaysFromLastFrameHoursTwo ==
  r_pc # "input" =>
    /\ r_pads.days = DigitCount(LastElapsed \div 24)
    /\ r_pads.hours = 2
    /\ SameWidthsAsLastFrame
    /\ \A c \in Corners :
         /\ Len(DaysField(TimeFields(c))) = r_pads.days
         /\ Len(HoursField(TimeFields(c))) = 2

\* C5 witness: the first frame of a sequence whose last frame is past day 9,
\* with last-frame hours of one digit: rendered 00 dd 00 hr
C5_Witness ==
  /\ r_pc = "lines"
  /\ r_in.idx = 1
  /\ LastElapsed \div 24 >= 10
  /\ LastElapsed % 24 < 10
  /\ TimeFields("tr") = << "0", "0" >> \o DAYS_UNIT \o << "0", "0" >> \o HOURS_UNIT

\* ------------------------------------------------- one rendered frame
\* the line templates of the label given to the corners
NormLines == _normalize_texts(r_in.label)

StartsWithMarker(t) == t # << >> /\ Head(t) = "!"

\* the time label of the frame under the widths in use
FrameTimeLabel == build_time_label(r_in.idx, r_pads.days, r_pads.hours)

\* a text after token substitution for the frame
Substituted(t) == replace_tokens(t, r_in.idx, r_in.total, r_pads)

\* the base font of the corners: the configured size, or the default font
BaseFont == load_font(r_in.font_ok, r_in.size)

\* n is base * BIG rounded to the nearest integer, a tie going to the even one
IsRoundedBig(n, base) ==
  LET twice == 2 * (BIG_DEN * n - BIG_NUM * base)
  IN /\ twice >= -BIG_DEN
     /\ twice <= BIG_DEN
     /\ (twice = BIG_DEN \/ twice = -BIG_DEN) => n % 2 = 0

\* C6 as stated: a line that begins with "!" is rendered with the marker
\* removed from its text and with the scaled font, whose point size is the
\* base size times BIG; any other line is rendered with the base font and its
\* text unchanged apart from token substitution.
C6_MarkerScaledFont ==
  r_pc = "drawn" =>
    \A c \in Corners :
      /\ Len(r_draw[c]) = Len(NormLines)
      /\ \A k \in 1..Len(NormLines) :
           LET t == NormLines[k]
               d == r_draw[c][k]
           IN IF StartsWithMarker(t)
              THEN /\ Tail(t) # TIME => d.text = Substituted(Tail(t))
                   /\ BIG_DEN * d.font.size = BIG_NUM * r_in.size
              ELSE /\ t # TIME => d.text = Substituted(t)
                   /\ d.font = BaseFont

\* C6: a line that begins with "!" is rendered with the marker and the
\* whitespace after it removed from its text, and with the corner's big font:
\* the font at the base size times BIG rounded to an integer (a tie to the even
\* one), or the default font when the font file cannot be loaded; any other
\* line is rendered with the base font and its text unchanged apart from token
\* substitution.
C6_MarkerBigFont ==
  r_pc = "drawn" =>
    \A c \in Corners :
      /\ Len(r_draw[c]) = Len(NormLines)
      /\ \A k \in 1..Len(NormLines) :
           LET t == NormLines[k]
               d == r_draw[c][k]
           IN IF StartsWithMarker(t)
              THEN /\ LStrip(Tail(t)) # TIME =>
                        d.text = Substituted(LStrip(Tail(t)))
                   /\ IF r_in.font_ok
                      THEN /\ d.font.kind = "truetype"
                           /\ IsRoundedBig(d.font.size, r_in.size)
                      ELSE d.font = BaseFont
              ELSE /\ t # TIME => d.text = Substituted(t)
                   /\ d.font = BaseFont

\* C6 witness: "! a`" at base size 15 drawn as "a1" at size 22
C6_Witness ==
  /\ r_pc = "drawn"
  /\ r_in.label = L_BANG_SPACE_TEXT
  /\ r_in.size = 15
  /\ r_in.font_ok
  /\ r_in.idx = 1
  /\ r_draw.tl[1].text = << "a", "1" >>
  /\ r_draw.tl[1].font = [kind |-> "truetype", size |-> 22]

\* the content of a line after removing a leading marker alone
AfterMarker(t) == IF StartsWithMarker(t) THEN Tail(t) ELSE t

\* the content of a line after removing a leading marker and the whitespace
\* that follows it
AfterMarkerAndSpace(t) == IF StartsWithMarker(t) THEN LStrip(Tail(t)) ELSE t

\* C7 as stated: a line whose content after removing a leading marker is
\* exactly TIME is replaced by the frame's time label; every other line
\* undergoes token substitution only and is never replaced by the time label.
C7_TimeAfterMarker ==
  r_pc # "input" =>
    \A c \in Corners :
      /\ Len(r_lines[c]) = Len(NormLines)
      /\ \A k \in 1..Len(NormLines) :
           IF AfterMarker(NormLines[k]) = TIME
           THEN r_lines[c][k].text = FrameTimeLabel
           ELSE /\ r_lines[c][k].text
                     = Substituted(AfterMarkerAndSpace(NormLines[k]))
                /\ r_lines[c][k].text # FrameTimeLabel

\* C7: a line whose content after removing a leading marker and the
\* whitespace that follows it is exactly TIME is replaced by the frame's time
\* label; every other line undergoes token substitution only and is never
\* replaced by the time label, even if it contains TIME.
C7_TimeAfterMarkerAndSpace ==
  r_pc # "input" =>
    \A c \in Corners :
      /\ Len(r_lines[c]) = Len(NormLines)
      /\ \A k \in 1..Len(NormLines) :
           IF AfterMarkerAndSpace(NormLines[k]) = TIME
           THEN r_lines[c][k].text = FrameTimeLabel
           ELSE /\ r_lines[c][k].text
                     = Substituted(AfterMarkerAndSpace(NormLines[k]))
                /\ r_lines[c][k].text # FrameTimeLabel

\* C7 witness: of "!TIME", "xTIME`" and "TIME^" only the first has become the
\* time label
C7_Witness ==
  /\ r_pc = "lines"
  /\ r_in.label = L_BIG_TIME
  /\ r_in.idx = 2
  /\ r_in.total = 2
  /\ r_lines.tl[1] = [text |-> FrameTimeLabel, big |-> TRUE]
  /\ r_lines.tl[2].text = << "x", "T", "I", "M", "E", "2" >>
  /\ r_lines.tl[3].text = << "T", "I", "M", "E", "2" >>

\* the configured lines of a label, and those that are not empty or blank
RawItems(label) ==
  CASE label.kind = "none" -> << >>
    [] label.kind = "list" -> label.items
    [] OTHER -> << Item(label.s) >>

IsBlankItem(item) ==
  item.isNone \/ \A i \in 1..Len(item.s) : item.s[i] = " "

KeptItems(label) == SelectSeq(RawItems(label), LAMBDA it : ~IsBlankItem(it))

\* the lines handed to the renderer are the non-blank configured lines, in
\* their configured order
LinesAreKeptItems ==
  \A c \in Corners :
    /\ Len(r_draw[c]) = Len(KeptItems(r_in.label))
    /\ \A k \in 1..Len(r_draw[c]) :
         LET t == Strip(KeptItems(r_in.label)[k].s)
         IN /\ r_draw[c][k].text = r_lines[c][k].text
            /\ IF AfterMarkerAndSpace(t) = TIME
               THEN r_draw[c][k].text = FrameTimeLabel
               ELSE r_draw[c][k].text = Substituted(AfterMarkerAndSpace(t))

\* C8: for any configured label, empty or blank lines are dropped and the
\* remaining lines keep their configured order, so that no line handed to the
\* renderer has empty text and no empty line consumes vertical space.
C8_NoEmptyLineRendered ==
  r_pc = "drawn" =>
    /\ LinesAreKeptItems
    /\ \A c \in Corners : \A k \in 1..Len(r_draw[c]) :
         r_draw[c][k].text # << >>

\* the offsets of a corner
OffsetX(c) ==
  CASE c = "tl" -> OFFSET_X_TL [] c = "tr" -> OFFSET_X_TR
    [] c = "bl" -> OFFSET_X_BL [] c = "br" -> OFFSET_X_BR

OffsetY(c) ==
  CASE c = "tl" -> OFFSET_Y_TL [] c = "tr" -> OFFSET_Y_TR
    [] c = "bl" -> OFFSET_Y_BL [] c = "br" -> OFFSET_Y_BR

\* the measured width and the line height of a drawn line
LineWidth(d) == _text_size(d.font, d.text)

LineHeight(d) == _line_height(d.font)

RightCorners == {"tr", "br"}

BottomCorners == {"bl", "br"}

\* C9: every line of a right-anchored block has its right edge (x + measured
\* width in its own font) at image_width - offset_x, and the last line of a
\* bottom-anchored block has its bottom edge (y + line height) at
\* image_height - offset_y, so no line of such a block passes those limits,
\* whatever the string length or the mix of base and big fonts.
C9_AnchoredEdges ==
  r_pc = "drawn" =>
    /\ \A c \in RightCorners : \A k \in 1..Len(r_draw[c]) :
         r_draw[c][k].x + LineWidth(r_draw[c][k]) = r_in.W - OffsetX(c)
    /\ \A c \in BottomCorners :
         r_draw[c] # << >> =>
           /\ r_draw[c][Len(r_draw[c])].y + LineHeight(r_draw[c][Len(r_draw[c])])
                = r_in.H - OffsetY(c)
           /\ \A k \in 1..Len(r_draw[c]) :
                r_draw[c][k].y + LineHeight(r_draw[c][k]) <= r_in.H - OffsetY(c)

\* C9 witness: a bottom-right block of five lines mixing both fonts, on the
\* small image
C9_Witness ==
  /\ r_pc = "drawn"
  /\ r_in.label = L_MANY
  /\ r_in.font_ok
  /\ r_in.W = 640
  /\ Len(r_draw.br) = 5
  /\ r_draw.br[1].font # r_draw.br[2].font
  /\ r_draw.br[5].font = r_draw.br[2].font

\* the rectangle of a drawn line lies inside the image
RectInside(d) ==
  /\ d.x >= 0
  /\ d.x + LineWidth(d) <= r_in.W
  /\ d.y >= 0
  /\ d.y + LineHeight(d) <= r_in.H

\* C10 as stated: for every frame and corner the rectangle of each rendered
\* line lies inside the image, for any text and any number of lines.
C10_RectInsideImage ==
  r_pc = "drawn" =>
    \A c \in Corners : \A k \in 1..Len(r_draw[c]) : RectInside(r_draw[c][k])

\* the line heights of lines a..b of a block, with the spacing between them
RECURSIVE StackedHeight(_, _, _)
StackedHeight(ds, a, b) ==
  IF a > b THEN 0
  ELSE LineHeight(ds[a]) + (IF a < b THEN LINE_SPACING ELSE 0)
       + StackedHeight(ds, a + 1, b)

\* the height from the anchored edge of a block through its line k
Extent(c, k) ==
  IF c \in BottomCorners THEN StackedHeight(r_draw[c], k, Len(r_draw[c]))
  ELSE StackedHeight(r_draw[c], 1, k)

\* C10: nothing is wrapped, clipped or scaled: the rectangle of a rendered
\* line lies horizontally inside the image exactly when offset_x plus its
\* measured width is at most image_width, and vertically inside exactly when
\* offset_y plus the stacked height from the block's anchored edge through
\* that line is at most image_height.
C10_RectInsideIffFits ==
  r_pc = "drawn" =>
    \A c \in Corners : \A k \in 1..Len(r_draw[c]) :
      LET d == r_draw[c][k]
      IN /\ (d.x >= 0 /\ d.x + LineWidth(d) <= r_in.W)
              <=> (OffsetX(c) + LineWidth(d) <= r_in.W)
         /\ (d.y >= 0 /\ d.y + LineHeight(d) <= r_in.H)
              <=> (OffsetY(c) + Extent(c, k) <= r_in.H)

\* C10 witness: the three top-left lines of the script in every corner of the
\* large image, all inside it
C10_Witness ==
  /\ r_pc = "drawn"
  /\ r_in.label = TEXT_LABEL_TL
  /\ r_in.size = 50
  /\ r_in.font_ok
  /\ r_in.W = 2500
  /\ \A c \in Corners :
       /\ Len(r_draw[c]) = 3
       /\ \A k \in 1..3 : RectInside(r_draw[c][k])

\* C11: within a corner block the lines are placed in configured order, line
\* k+1 starts exactly at line k's y plus line k's own line height plus
\* LINE_SPACING, so consecutive lines never overlap; a top block starts at
\* offset_y and a bottom block at image_height - offset_y minus the stacked
\* height of all its lines with n-1 spacings.
C11_VerticalStacking ==
  r_pc = "drawn" =>
    \A c \in Corners :
      LET ds == r_draw[c]
          n == Len(ds)
      IN /\ n = Len(r_lines[c])
         /\ \A k \in 1..n : ds[k].text = r_lines[c][k].text
         /\ \A k \in 1..(n - 1) :
              /\ ds[k + 1].y = ds[k].y + LineHeight(ds[k]) + LINE_SPACING
              /\ ds[k].y + LineHeight(ds[k]) <= ds[k + 1].y
         /\ n > 0 =>
              ds[1].y = IF c \in BottomCorners
                        THEN r_in.H - OffsetY(c) - StackedHeight(ds, 1, n)
                        ELSE OffsetY(c)

\* C11 witness: five lines of both fonts stacked in the bottom-left corner,
\* the big second line taller than the first
C11_Witness ==
  /\ r_pc = "drawn"
  /\ r_in.label = L_MANY
  /\ r_in.font_ok
  /\ r_in.size = 50
  /\ Len(r_draw.bl) = 5
  /\ LineHeight(r_draw.bl[2]) > LineHeight(r_draw.bl[1])
  /\ r_draw.bl[3].y > r_draw.bl[2].y

\* the input directory holds no PNG file; no entry at all with the suffix
ZeroPngFiles == ~\E e \in in_entries : ~e.isdir /\ is_png(e)

NoPngEntries == ~\E e \in in_entries : is_png(e)

\* the files of the output directory that a run of the tool wrote
WrittenFiles(o) == {n \in DOMAIN o.files : o.files[n].kind # "stale"}

EndedOnBadInput == pc = "exit" /\ log = << [kind |-> "not_a_directory"] >>

EndedOnNoPngs == pc = "exit" /\ log = << [kind |-> "no_pngs"] >>

\* no font loaded, no image opened
NoWorkDone == fonts = NoFonts /\ Attempts = << >> /\ idx = 0

\* C13 as stated: both pre-flight failures, a bad input path and a directory
\* with zero matching images, abort before any work is done (no output
\* directory created, no font loaded, no image opened) and with a non-zero exit
\* status.
C13_PreflightAbortsNonZero ==
  /\ []((EndedOnBadInput \/ EndedOnNoPngs) => (exit_code # 0 /\ NoWorkDone))
  /\ [][(pc = "start" /\ (in_kind # "dir" \/ NoPngEntries)) =>
          (pc' = "exit" /\ out' = out)]_vars

\* C13: a bad input path aborts the run before any work is done (no output
\* directory created, no font loaded, no image opened) with exit status 1; a
\* directory with zero matching images ends the run with exit status 0, after
\* the output directory has been created if it was absent, and with no font
\* loaded, no image opened and no file written.
C13_PreflightBadPathOnlyNonZero ==
  /\ [](/\ EndedOnBadInput => (exit_code = 1 /\ NoWorkDone)
        /\ EndedOnNoPngs => (exit_code = 0 /\ NoWorkDone /\ out.exists))
  /\ [][/\ (pc = "start" /\ in_kind # "dir") => (pc' = "exit" /\ out' = out)
        /\ (pc = "start" /\ in_kind = "dir" /\ NoPngEntries) =>
             /\ pc' = "exit"
             /\ out'.exists
             /\ out'.files = out.files]_vars

\* C13 witness: a run on a directory without PNGs has ended with status 0 and
\* has left an empty output directory
C13_Witness ==
  /\ EndedOnNoPngs
  /\ exit_code = 0
  /\ out = [exists |-> TRUE, files |-> NoFiles]
  /\ NoWorkDone

\* the frames of the run that failed
FailedFrames == {j \in 1..Len(Attempts) : Attempts[j].kind = "failed"}

\* C14: the final summary line reports the number of files actually written
\* to the destination directory: when k of the N frames fail, the reported
\* count is N - k.
C14_SummaryCountsWritten ==
  (pc = "exit" /\ pngs # << >>) =>
    /\ log[Len(log)].kind = "done"
    /\ log[Len(log)].count = Len(pngs) - Cardinality(FailedFrames)

\* C15: running the tool twice on the same input directory with unchanged
\* configuration yields the same output directory contents: the second run
\* leaves the same file names, each with the same text lines, fonts and
\* positions, as the first, whether or not the output directory existed.
C15_RerunSameOutput ==
  (run >= 2 /\ pc = "exit" /\ nfail = 0) =>
    /\ out = out1
    /\ OkNames \subseteq DOMAIN out.files
    /\ \A j \in 1..Len(pngs) :
         ~pngs[j].isdir => out.files[pngs[j].name] = overlay_file(pngs[j], j)

\* C15 witness: a second run has ended after writing at least two frames over
\* those of the first
C15_Witness ==
  /\ run = 2
  /\ pc = "exit"
  /\ nfail = 0
  /\ Cardinality(OkNames) >= 2
  /\ OkNames \subseteq DOMAIN out1.files
  /\ \A n \in OkNames : out1.files[n].kind = "overlay"

\* C16: no step of a run creates, overwrites, renames or deletes anything
\* inside the input directory: for every input path the tool accepts, the
\* entries of the input directory are the same after every step as before it.
C16_InputUntouched == [][in_entries' = in_entries]_vars

\* the fallback warnings printed so far
WarnLines == SelectSeq(log, LAMBDA m : m.kind = "warn")

\* every font of the run is the built-in default font
AllFontsDefault ==
  \A c \in Corners :
    fonts[c].font.kind = "default" /\ fonts[c].font_big.kind = "default"

\* a run whose font file cannot be loaded goes on with the default font, and
\* every frame is attempted
FallbackRunGoesOn ==
  /\ pc # "crashed"
  /\ AllFontsDefault
  /\ Len(Attempts) = idx - 1
  /\ pc = "exit" => (Len(Attempts) = Len(pngs) /\ exit_code = 0)
  /\ \A n \in OkNames :
       out.files[n].kind = "overlay" =>
         \A c \in Corners : \A k \in 1..Len(out.files[n].draw[c]) :
           out.files[n].draw[c][k].font.kind = "default"

\* C17 as stated: when the configured font cannot be loaded the run is not
\* aborted, the default font is substituted, every frame is still processed,
\* and the fallback warning for that font resource is logged once per run.
C17_FallbackWarnedOnce ==
  (~font_ok /\ pc \in {"loop", "exit"} /\ pngs # << >>) =>
    /\ FallbackRunGoesOn
    /\ Len(WarnLines) = 1

\* C17: when the configured font cannot be loaded the run is not aborted, the
\* default font is substituted for the base and the big font of every corner,
\* every frame is still processed, and the fallback warning is logged once
\* per load_font call: twice per corner, eight times per run.
C17_FallbackWarnedPerLoad ==
  (~font_ok /\ pc \in {"loop", "exit"} /\ pngs # << >>) =>
    /\ FallbackRunGoesOn
    /\ Len(WarnLines) = 2 * Cardinality(Corners)
    /\ \A j \in 1..Len(log) : (log[j].kind = "warn") <=> (j <= Len(WarnLines))

\* C17 witness: a run without its font file has ended with a frame written in
\* the default font
C17_Witness ==
  /\ ~font_ok
  /\ pc = "exit"
  /\ \E n \in OkNames :
       /\ out.files[n].kind = "overlay"
       /\ out.files[n].draw.tl # << >>
       /\ out.files[n].draw.tl[1].font.kind = "default"

\* the entries of the input directory whose name ends in .png, in any case
PngEntries == {e \in in_entries : Lower(path_suffix(e.name)) = PNG_SUFFIX}

\* the entries whose name sorts before a name
SortBefore(name) == {e \in PngEntries : StrLess(e.name, name)}

\* C18: the frame index of an input PNG is its 1-based position in the
\* lexicographic file name order of all PNGs of the input directory (1 + the
\* number of PNG names that sort before it); frames are processed one at a
\* time in increasing index order, and a frame is opened, rendered and saved
\* before the next one is opened.
C18_IndexIsSortedPosition ==
  /\ []((pc \in {"loop", "exit"} /\ pngs # << >>) =>
          /\ Len(pngs) = Cardinality(PngEntries)
          /\ total = Len(pngs)
          /\ \A j \in 1..Len(pngs) :
               /\ pngs[j] \in PngEntries
               /\ Cardinality(SortBefore(pngs[j].name)) = j - 1
          /\ idx = Len(Attempts) + 1
          /\ \A j \in 1..Len(Attempts) :
               /\ Attempts[j].name = pngs[j].name
               /\ Attempts[j].kind = "ok" =>
                    Attempts[j].idx = 1 + Cardinality(SortBefore(Attempts[j].name)))
  /\ [][(pc = "loop" /\ idx <= total) =>
          /\ idx' = idx + 1
          /\ Len(log') = Len(log) + 1
          /\ log'[Len(log')].name = pngs[idx].name
          /\ \A n \in DOMAIN out.files :
               n # pngs[idx].name =>
                 (n \in DOMAIN out'.files /\ out'.files[n] = out.files[n])
          /\ DOMAIN out'.files \subseteq (DOMAIN out.files \cup {pngs[idx].name})
          /\ log'[Len(log')].kind = "ok" =>
               out'.files[pngs[idx].name] = overlay_file(pngs[idx], idx)]_vars

\* C18 witness: 7.png, 14.png and 21.png have been processed as frames 3, 1
\* and 2
C18_Witness ==
  /\ pc = "exit"
  /\ Len(Attempts) = 3
  /\ Attempts[1] = [kind |-> "ok", idx |-> 1, total |-> 3, name |-> PngName(2)]
  /\ Attempts[2] = [kind |-> "ok", idx |-> 2, total |-> 3, name |-> PngName(3)]
  /\ Attempts[3] = [kind |-> "ok", idx |-> 3, total |-> 3, name |-> PngName(1)]

\* the PNG files of the folder given to the filtered tool, and the 1-based
\* alphabetical position of a name among them
FolderPngFiles ==
  {e \in f_in.entries : ~e.isdir /\ Lower(path_suffix(e.name)) = PNG_SUFFIX}

FolderPngNames == {e.name : e \in FolderPngFiles}

AlphabeticalPosition(name) ==
  1 + Cardinality({e \in FolderPngFiles : StrLess(e.name, name)})

NamedInFilter == {f_in.filter[i] : i \in 1..Len(f_in.filter)}

\* the index field and the total field of the "Frame `/^" text of a file
IndexFieldOf(t) == LeadingDigits(Drop(t, Len(FRAME_PREFIX)))

TotalFieldOf(t) == Drop(t, Len(FRAME_PREFIX) + Len(IndexFieldOf(t)) + 1)

\* the tokens of every file written are the alphabetical position, padded to
\* the digits of the folder's PNG count, and that count
TokensAreFolderWide ==
  \A n \in DOMAIN f_out.files :
    LET t == f_out.files[n].text.tr
        count == Cardinality(FolderPngFiles)
    IN /\ n \in FolderPngNames
       /\ StartsWith(t, FRAME_PREFIX)
       /\ Len(IndexFieldOf(t)) = DigitCount(count)
       /\ NumVal(IndexFieldOf(t)) = AlphabeticalPosition(n)
       /\ t = FRAME_PREFIX \o IndexFieldOf(t) \o << "/" >> \o TotalFieldOf(t)
       /\ TotalFieldOf(t) = Str(count)

\* the requested files that are absent are skipped with one warning
AbsentAreWarned ==
  LET absent == NamedInFilter \ FolderPngNames
      warned == SelectSeq(f_log, LAMBDA m : m.kind = "warn_missing")
  IN /\ absent \cap DOMAIN f_out.files = {}
     /\ (f_pc \in {"loop", "exit"} /\ f_in.kind = "dir"
         /\ FolderPngFiles # {}) =>
          IF absent # {}
          THEN Len(warned) = 1 /\ warned[1].names = absent
          ELSE warned = << >>

\* C19 as stated: for any FILTER list each processed file's frame-index token
\* is its alphabetical position among all PNGs of the folder, padded to the
\* digits of the folder's PNG count, and the total token is that count; files
\* named in FILTER but absent are skipped with a warning, and files not named
\* in FILTER produce no output.
C19_FilterAnyList ==
  /\ TokensAreFolderWide
  /\ AbsentAreWarned
  /\ DOMAIN f_out.files \subseteq NamedInFilter

\* C19: for a non-empty FILTER list each processed file's frame-index token
\* is its alphabetical position among all PNGs of the folder, padded to the
\* digits of the folder's PNG count, and the total token is that count; files
\* named in FILTER but absent are skipped with a warning, and files not named
\* in FILTER produce no output.  With the empty FILTER list every PNG of the
\* folder is processed, with the same tokens.
C19_FilterNonEmptyList ==
  /\ TokensAreFolderWide
  /\ AbsentAreWarned
  /\ f_in.filter # << >> => DOMAIN f_out.files \subseteq NamedInFilter
  /\ (f_pc = "exit" /\ f_exit = 0 /\ f_nfail = 0) =>
       DOMAIN f_out.files = IF f_in.filter = << >> THEN FolderPngNames
                            ELSE NamedInFilter \cap FolderPngNames

\* C19 witness: with FILTER naming 0181.png, 0172.png and an absent file, in a
\* folder of eleven PNGs, 0181.png was processed first and shows Frame 11/11
C19_Witness ==
  /\ f_pc = "exit"
  /\ f_in.filter = << FilterName(11), FilterName(2), X_PNG >>
  /\ Cardinality(FolderPngFiles) = 11
  /\ f_pngs = << FilterName(11), FilterName(2) >>
  /\ DOMAIN f_out.files = {FilterName(11), FilterName(2)}
  /\ f_out.files[FilterName(11)].text.tr
       = FRAME_PREFIX \o << "1", "1", "/", "1", "1" >>
  /\ f_out.files[FilterName(2)].text.tr
       = FRAME_PREFIX \o << "0", "2", "/", "1", "1" >>

\* a label with every ~ replaced by the total and every backtick by the frame
\* number padded to the digits of the total
RECURSIVE TildeAndBacktickReplaced(_)
TildeAndBacktickReplaced(s) ==
  IF s = << >> THEN << >>
  ELSE (CASE Head(s) = "~" -> Str(m_in.total)
          [] Head(s) = Backtick -> ZFill(Str(m_in.idx), DigitCount(m_in.total))
          [] OTHER -> << Head(s) >>)
       \o TildeAndBacktickReplaced(Tail(s))

\* C20: in the single-line tool every occurrence of the marker ~ in a corner
\* label is replaced by the total number of frames of the folder, and every
\* backtick by the current frame number zero-padded to the digits of the
\* total.
C20_TildeIsTotal ==
  (m_pc = "done" /\ \A i \in 1..Len(m_in.label) : m_in.label[i] # ";") =>
    m_text = TildeAndBacktickReplaced(m_in.label)


\* ---------------------------------------------------------------- C21
\* the output directory listed in sorted filename order, as file contents
ReverseListing ==
  contents(rev.out.files, sorted({File(nm) : nm \in DOMAIN rev.out.files}))

\* the input frames in sorted filename order, as file contents
ReverseInputs == contents(rev.data, rev.png_files)

ReverseEnded == rev.pc = "exit" /\ rev.exit = 0 /\ ~rev.out0.exists

\* C21: when the frame-reversal tool has ended on a fresh output directory,
\* the directory holds one file per input PNG, named by the 1-based index
\* padded to the widest all-digit input stem (4 if none), and its k-th file
\* in sorted filename order is a copy of the (n-k+1)-th input in sorted
\* filename order; after reversing the reversed directory the listing is the
\* original sequence again.
C21_ReversedListing ==
  ReverseEnded =>
    LET n == Len(rev.png_files)
    IN /\ Len(ReverseListing) = n
       /\ DOMAIN rev.out.files =
            {dst_name_94(i, pad_width_94(rev.png_files)) : i \in 1..n}
       /\ \A k \in 1..n : ReverseListing[k] = ReverseInputs[n - k + 1]
       /\ rev.pass = 2 => ReverseListing = rev.first


\* ---------------------------------------------------------------- C22
\* the smallest of three integers
Min3(a, b, c) == CHOOSE m \in {a, b, c} : \A x \in {a, b, c} : m <= x

\* two margins that differ by at most 1
NearlyEqual(a, b) == a - b \in {-1, 0, 1}

\* C22: for an image of width w and height h and a pixel_length >= 1,
\* crop_center_square crops a square of side s = min(pixel_length, w, h)
\* that lies inside the image (0 <= left, left + s <= w, 0 <= top,
\* top + s <= h) and is centred: the left and right margins differ by at
\* most 1, and so do the top and bottom margins.
C22_CentredSquare ==
  sq.pc = "cropped" =>
    LET s == Min3(sq.pixel_length, sq.width, sq.height)
        b == sq.crop
    IN /\ b.right - b.left = s
       /\ b.bottom - b.top = s
       /\ 0 <= b.left /\ b.left + s <= sq.width
       /\ 0 <= b.top /\ b.top + s <= sq.height
       /\ NearlyEqual(b.left, sq.width - b.right)
       /\ NearlyEqual(b.top, sq.height - b.bottom)

\* a crop clamped by the image height, with an odd horizontal slack
C22_Witness ==
  /\ sq.pc = "cropped"
  /\ sq.pixel_length > sq.height
  /\ sq.height < sq.width
  /\ (sq.width - sq.height) % 2 = 1
  /\ sq.crop.left > 0


\* ---------------------------------------------------------------- C23
\* the frames the calculator is to process: the first NUM_FRAMES files in
\* sorted order, all of them if NUM_FRAMES is None or not positive
FramesToProcess ==
  LET all == listdir_sorted(calc.data)
      nf == calc.num_frames
  IN IF nf = None \/ nf[1] <= 0 \/ nf[1] >= Len(all) THEN all
     ELSE [i \in 1..nf[1] |-> all[i]]

\* the pixels that are not black in the first k of those frames
LitPixels(k) ==
  UNION {calc.data[FramesToProcess[i]].lit : i \in 1..k}

\* b is the tightest inclusive box around the pixels P
TightBox(b, P) ==
  /\ \A p \in P : b[1] <= p[1] /\ p[1] <= b[3] /\ b[2] <= p[2] /\ p[2] <= b[4]
  /\ \E p \in P : p[1] = b[1]
  /\ \E p \in P : p[2] = b[2]
  /\ \E p \in P : p[1] = b[3]
  /\ \E p \in P : p[2] = b[4]

\* C23: the crop calculator processes the first NUM_FRAMES files in sorted
\* order (all files if NUM_FRAMES is None or not positive); after each frame
\* its running box is the tightest inclusive box around the non-black pixels
\* of the frames processed so far (so an entirely black frame leaves it as it
\* was), and the line it prints is that box over all processed frames, or
\* 0 0 0 0 if every processed frame is entirely black.
C23_TightBoundingBox ==
  /\ calc.pc = "loop" =>
       /\ calc.files = FramesToProcess
       /\ IF LitPixels(calc.idx) = {} THEN calc.global = None
          ELSE TightBox(calc.global, LitPixels(calc.idx))
  /\ (calc.pc = "exit" /\ calc.exit = 0) =>
       IF LitPixels(Len(FramesToProcess)) = {}
       THEN calc.printed = << 0, 0, 0, 0 >>
       ELSE TightBox(calc.printed, LitPixels(Len(FramesToProcess)))

\* a box printed for a lit frame followed by an entirely black one
C23_Witness ==
  /\ calc.pc = "exit"
  /\ calc.exit = 0
  /\ Len(calc.files) = 2
  /\ calc.data[calc.files[1]].lit = {<< 1, 1 >>, << 3, 2 >>}
  /\ calc.data[calc.files[2]].lit = {}
  /\ calc.printed = << 1, 1, 3, 2 >>

\* ---------------------------------------------------------------- C24
\* the processed frames whose resolution is not that of the first one
Mismatching ==
  {i \in 1..Len(calc.files) :
     size_of(calc.data[calc.files[i]]) # size_of(calc.data[calc.files[1]])}

\* C24: the crop calculator prints crop coordinates only if every processed
\* frame has the width and height of the first processed frame; otherwise it
\* stops at the first frame whose resolution differs, with exit status 1 and
\* without having printed crop coordinates.
C24_SameResolutionOrExit ==
  /\ calc.pc = "loop" => \A i \in 1..calc.idx : i \notin Mismatching
  /\ (calc.pc = "exit" /\ calc.printed # None) => Mismatching = {}
  /\ (calc.pc = "exit" /\ calc.files # << >> /\ Mismatching # {}) =>
       /\ calc.exit = 1
       /\ calc.printed = None
       /\ calc.idx + 1 = min(Mismatching)

\* a run ended by a second frame of the same width and another height, after
\* a first frame with a bounding box
C24_Witness ==
  /\ calc.pc = "exit"
  /\ calc.exit = 1
  /\ Len(calc.files) = 2
  /\ calc.idx = 1
  /\ calc.global # None
  /\ calc.data[calc.files[2]].width = calc.data[calc.files[1]].width
  /\ calc.data[calc.files[2]].height # calc.data[calc.files[1]].height

\* ---------------------------------------------------------------- C28
\* the cropper has ended a run on the numbers the calculator printed for a
\* sequence with a pixel that is not black
CroppedWithPrinted ==
  /\ calc.pc = "exit"
  /\ calc.printed # None
  /\ calc.global # None
  /\ box # Idle
  /\ box.pc = "exit"

\* C28: when the cropper is run on a sequence with the four numbers the
\* calculator printed for it, the cropper accepts the box and every frame the
\* calculator processed keeps all its non-black pixels in its cropped file.
C28_CropKeepsNonBlack ==
  CroppedWithPrinted =>
    /\ box.exit = 0
    /\ \A i \in 1..Len(calc.files) :
         /\ calc.files[i] \in DOMAIN box.out.files
         /\ Cardinality(box.out.files[calc.files[i]].lit)
              = Cardinality(calc.data[calc.files[i]].lit)

\* ---------------------------------------------------------------- C29
\* C29: in the box cropper every crop applied lies within the image it is
\* applied to (0 <= left < right <= w and 0 <= top < bottom <= h for each
\* frame cropped so far), and a run ended by an out-of-bounds box has written
\* no output file.
C29_CropWithinImage ==
  /\ box.pc \in {"loop", "exit"} =>
       \A k \in 1..box.i :
         box_in_bounds(box.args, box.data[box.files[k]].width,
                       box.data[box.files[k]].height)
  /\ (box.pc = "exit" /\ box.exit = 1) => box.out.files = box.out0.files


\* ---------------------------------------------------------------- C25
\* the fields of a rotation line, and whether the line is well formed: at
\* least two fields, an integer frame number and a number of degrees
Fields(line) == split(line)

WellFormed(line) ==
  /\ Len(Fields(line)) >= 2
  /\ is_int(Fields(line)[1])
  /\ is_float(Fields(line)[2])

\* the lines of the rotation file that give a rotation for frame number n
LinesFor(n) ==
  {i \in 1..Len(rot.lines) :
     WellFormed(rot.lines[i]) /\ int(Fields(rot.lines[i])[1]) = n}

\* what the rotation file says for frame number n, in tenths of a degree:
\* the degrees of the last of its lines, 0 if it has no line
DegreesFor(n) ==
  IF LinesFor(n) = {} THEN 0
  ELSE float_tenths(Fields(rot.lines[max(LinesFor(n))])[2])

\* C25: when the frame rotator has ended on a fresh output folder, the folder
\* holds exactly one file for every input PNG, under the same name; the file
\* of the frame at 1-based sorted position n is the frame rotated by the
\* degrees that the last well-formed rotation line for frame number n gives,
\* and an unrotated copy if there is no such line or it gives 0 degrees;
\* malformed lines have no effect.
C25_RotatedByFrameNumber ==
  (rot.pc = "exit" /\ rot.exit = 0 /\ rot.out0.files = NoFiles) =>
    /\ DOMAIN rot.out.files = rot.names
    /\ \A n \in 1..Len(rot.png_files) :
         LET name == rot.png_files[n]
         IN /\ \A k \in 1..(n - 1) : StrLess(rot.png_files[k], name)
            /\ rot.out.files[name] =
                 IF DegreesFor(n) = 0 THEN [kind |-> "copy", of |-> name]
                 ELSE [kind |-> "rotated", of |-> name, by |-> DegreesFor(n)]

\* frame 2 named on two lines with different degrees, frame 1 and frame 3
\* on none
C25_Witness ==
  /\ rot.pc = "exit"
  /\ rot.exit = 0
  /\ Len(rot.png_files) = 3
  /\ Cardinality(LinesFor(2)) = 2
  /\ \E i, j \in LinesFor(2) :
       i < j /\ float_tenths(Fields(rot.lines[i])[2]) # DegreesFor(2)
  /\ rot.out.files[rot.png_files[2]].kind = "rotated"
  /\ rot.out.files[rot.png_files[1]].kind = "copy"


\* ---------------------------------------------------------------- C26
\* the first and the last frame of the curve
CurveFirst == max({curve.start, 1})
CurveLast == min({curve.last, curve.scene_end})

\* the sum of the vortex strength over the frames a..b
RECURSIVE StrengthSum(_, _)
StrengthSum(a, b) ==
  IF b < a THEN 0 ELSE StrengthSum(a, b - 1) + curve.strength[b]

\* C26: the rotation-curve printer has printed, at every moment of its loop,
\* one line for each frame from max(START_FRAME, 1) up to the frame it has
\* reached, in increasing order, the value of frame f being -SCALE times the
\* sum of the vortex strength over the frames max(START_FRAME, 1)..f; when it
\* ends it has printed the frames up to min(LAST_FRAME, scene.frame_end), and
\* nothing if the first frame exceeds that.
C26_NegatedRunningSum ==
  curve.pc \in {"loop", "done"} =>
    /\ \A i \in 1..Len(curve.lines) :
         /\ curve.lines[i][1] = CurveFirst + i - 1
         /\ curve.lines[i][2] =
              -(SCALE_NUM * StrengthSum(CurveFirst, curve.lines[i][1]))
    /\ Len(curve.lines) = curve.f - CurveFirst
    /\ curve.f <= max({CurveLast + 1, CurveFirst})
    /\ curve.pc = "done" =>
         Len(curve.lines) = max({CurveLast - CurveFirst + 1, 0})

\* three lines printed, START_FRAME raised to 1, LAST_FRAME cut to the scene's
\* end, the strength changing sign
C26_Witness ==
  /\ curve.pc = "done"
  /\ curve.start < 1
  /\ curve.last > curve.scene_end
  /\ Len(curve.lines) = 3
  /\ curve.strength[1] = 2
  /\ curve.strength[2] = -1
  /\ curve.lines[3][2] # curve.lines[2][2]


\* ---------------------------------------------------------------- C27
\* the input lines with at least two fields and a numeric second field, in
\* input order, and their second values in tenths
ValidInput ==
  select(scl.lines, {i \in 1..Len(scl.lines) : 
                       /\ Len(Fields(scl.lines[i])) >= 2
                       /\ is_float(Fields(scl.lines[i])[2])})

SecondValue(line) == float_tenths(Fields(line)[2])

\* the smallest valid second value, in tenths
SmallestSecond == min({SecondValue(ValidInput[j]) : j \in 1..Len(ValidInput)})

Written == scl.out.lines

\* -104 in millionths
TargetWritten == -104 * 1000000

\* w millionths is a nearest millionth to -104 * s / m
NearestMillionth(w, s, m) ==
  LET a == 104 * (IF s < 0 THEN -s ELSE s)
      d == IF m < 0 THEN -m ELSE m
      below == (a \div d) * 1000000 + ((a % d) * 1000000) \div d
      exact == ((a % d) * 1000000) % d = 0
      up == 2 * (((a % d) * 1000000) % d) >= d
      down == 2 * (((a % d) * 1000000) % d) <= d
      same_sign == (s < 0) = (m < 0) /\ s # 0
  IN /\ exact => w = (IF same_sign THEN -below ELSE below)
     /\ ~exact =>
          \/ down /\ w = (IF same_sign THEN -below ELSE below)
          \/ up /\ w = (IF same_sign THEN -(below + 1) ELSE below + 1)

\* the lines written are the valid lines, in input order, first field
\* unchanged, the line holding the smallest value written as -104; and no
\* file is written by a run that ends with status 1, which is the run of an
\* input without a valid line or with 0 as its smallest value
ScaledToTarget ==
  /\ (scl.pc = "exit" /\ scl.exit = 0) =>
       /\ scl.out.exists
       /\ Len(Written) = Len(ValidInput)
       /\ \A j \in 1..Len(Written) :
            /\ Written[j].first = Fields(ValidInput[j])[1]
            /\ SecondValue(ValidInput[j]) = SmallestSecond =>
                 Written[j].second = TargetWritten
            /\ NearestMillionth(Written[j].second,
                                SecondValue(ValidInput[j]), SmallestSecond)
  /\ (scl.pc = "exit" /\ scl.kind = "file") =>
       (scl.exit = 1 <=> (ValidInput = << >> \/ SmallestSecond = 0))
  /\ (scl.pc = "exit" /\ scl.exit = 1) => ~scl.out.exists

\* C27 as stated: the scaler writes the valid lines scaled by -104 / m, the
\* line holding the smallest valid value m as -104, and -104 is the smallest
\* value of the output.
C27_TargetIsSmallest ==
  /\ ScaledToTarget
  /\ (scl.pc = "exit" /\ scl.exit = 0) =>
       \A j \in 1..Len(Written) : Written[j].second >= TargetWritten

\* C27 as the code has it: the scaler writes the valid lines scaled by
\* -104 / m, the line holding the smallest valid value m as -104; -104 is the
\* smallest value of the output when m is negative and the largest when m is
\* positive.
C27_TargetIsExtreme ==
  /\ ScaledToTarget
  /\ (scl.pc = "exit" /\ scl.exit = 0) =>
       \A j \in 1..Len(Written) :
         IF SmallestSecond < 0 THEN Written[j].second >= TargetWritten
         ELSE Written[j].second <= TargetWritten

\* an input whose smallest valid value is positive, with a larger value too,
\* and with a line that is not valid
C27_Witness ==
  /\ scl.pc = "exit"
  /\ scl.exit = 0
  /\ SmallestSecond > 0
  /\ Len(Written) = 2
  /\ Len(scl.lines) = 3
  /\ Written[1].second < TargetWritten
  /\ Written[2].second = TargetWritten

====
